---------------------------- MODULE Spec2Model ----------------------------
(***************************************************************************)
(* FootprintMRC: the access window (ring buffer), the footprint analyzer   *)
(* and the slab reallocation solver of the LAMA rebalancing strategy.      *)
(*                                                                         *)
(* Numbers.  Every double the code computes from the window is a quotient  *)
(* of two integers.  The model keeps such a value as a pair <<num, den>>   *)
(* with den > 0 and compares pairs by cross-multiplication, i.e. it        *)
(* computes in exact arithmetic; the rounding of the double operations is  *)
(* not modelled.  accessFrequency * missRatio is the integer number of     *)
(* misses n - hitCount.                                                    *)
(***************************************************************************)
EXTENDS Integers, Sequences, FiniteSets, TLC

(***************************************************************************)
(* Bounds of the model.                                                    *)
(***************************************************************************)
MaxCapacity == 3      \* constructor argument k ranges over 1..MaxCapacity
MaxFeeds    == 3      \* feed calls in one run of the sequential driver
MaxAllocs   == 2      \* allocsPerSlab values range over 0..MaxAllocs
MaxSlabs    == 2      \* currentAllocation values range over 0..MaxSlabs

ClassIds == {1, 2}

(***************************************************************************)
(* Key texts, as sequences of characters, and their conversion in feed.    *)
(***************************************************************************)
KeyTexts == { <<"1">>, <<"0", "1">>, <<"k">> }

Digits == [c \in {"0", "1", "2", "3", "4", "5", "6", "7", "8", "9"} |->
             CASE c = "0" -> 0 [] c = "1" -> 1 [] c = "2" -> 2 [] c = "3" -> 3
               [] c = "4" -> 4 [] c = "5" -> 5 [] c = "6" -> 6 [] c = "7" -> 7
               [] c = "8" -> 8 [] c = "9" -> 9]

\* std::stoull: the value of the longest prefix of decimal digits; -1 stands
\* for the exception it throws: std::invalid_argument when there is no such
\* prefix, std::out_of_range when the value does not fit 64 bits.
RECURSIVE StoullFrom(_, _, _)
StoullFrom(text, i, acc) ==
    IF i > Len(text) \/ text[i] \notin DOMAIN Digits
    THEN IF i = 1 THEN -1 ELSE acc
    ELSE StoullFrom(text, i + 1, 10 * acc + Digits[text[i]])

RECURSIVE DigitPrefixLen(_, _)
DigitPrefixLen(text, i) ==
    IF i > Len(text) \/ text[i] \notin DOMAIN Digits THEN 0
    ELSE 1 + DigitPrefixLen(text, i + 1)

RECURSIVE LeadingZeros(_, _)
LeadingZeros(text, i) ==
    IF i > Len(text) \/ text[i] # "0" THEN 0 ELSE 1 + LeadingZeros(text, i + 1)

\* 2^64 - 1 has 20 digits: a value of more than 20 significant digits is out
\* of range (no key text of the model has exactly 20)
Stoull(text) ==
    IF DigitPrefixLen(text, 1) - LeadingZeros(text, 1) > 20 THEN -1
    ELSE StoullFrom(text, 1, 0)

\* std::hash<std::string>: implementation-defined; here a polynomial hash of
\* the positions of the characters in a fixed alphabet, above the digits,
\* kept to 16 bits.
RECURSIVE StdHash(_)
StdHash(text) ==
    IF text = << >> THEN 7
    ELSE (31 * StdHash(Tail(text)) + (IF Head(text) \in DOMAIN Digits
                                      THEN Digits[Head(text)] ELSE 11)) % 65536

\* feed, lines 155-162: the numeric value, or the hash when stoull throws.
KeyIntOf(text) == IF Stoull(text) >= 0 THEN Stoull(text) ELSE StdHash(text)

(***************************************************************************)
(* The ring.  circularBuffer is indexed 0..k-1 like the std::vector.       *)
(***************************************************************************)
EmptyRecord == <<0, 0>>   \* a value-initialized std::tuple<KeyInt, ClassId>

NewBuffer(k) == [i \in 0 .. k - 1 |-> EmptyRecord]

BufferLen(buf) == Cardinality(DOMAIN buf)

(***************************************************************************)
(* Exact quotients and small helpers.                                      *)
(***************************************************************************)
RECURSIVE GCD(_, _)
GCD(a, b) == IF b = 0 THEN a ELSE GCD(b, a % b)

Abs(x) == IF x < 0 THEN -x ELSE x

\* the quotient num / den (den > 0) in lowest terms
Rat(num, den) == LET g == GCD(Abs(num), den) IN <<num \div g, den \div g>>

RatZero == <<0, 1>>
RatOne  == <<1, 1>>

RatLess(a, b) == a[1] * b[2] < b[1] * a[2]
RatLeq(a, b)  == a[1] * b[2] <= b[1] * a[2]
RatAdd(a, b)  == Rat(a[1] * b[2] + b[1] * a[2], a[2] * b[2])
RatSub(a, b)  == Rat(a[1] * b[2] - b[1] * a[2], a[2] * b[2])

Min(a, b) == IF a < b THEN a ELSE b

SetMin(S) == CHOOSE x \in S : \A y \in S : x <= y

\* the elements of a set of integers in ascending order: the iteration order
\* of std::map and std::set
RECURSIVE Ascending(_)
Ascending(S) == IF S = {} THEN << >>
                ELSE <<SetMin(S)>> \o Ascending(S \ {SetMin(S)})

RECURSIVE SumSeq(_)
SumSeq(s) == IF s = << >> THEN 0 ELSE Head(s) + SumSeq(Tail(s))

\* the sum of the values of a map
SumMap(f) == LET ks == Ascending(DOMAIN f)
             IN SumSeq([i \in 1 .. Len(ks) |-> f[ks[i]]])

RECURSIVE Repeat(_, _)
Repeat(x, count) == IF count = 0 THEN << >> ELSE <<x>> \o Repeat(x, count - 1)

EmptyMap == << >>

(***************************************************************************)
(* calculateWindowStats: the order in which the snapshot is read.          *)
(***************************************************************************)
\* faulty variant of StartIndex: the read always starts at slot 0
StartIndexZero(snapshotSize, snapshotHeadIndex, snapshotMaxLen) == 0

StartIndex(snapshotSize, snapshotHeadIndex, snapshotMaxLen) ==
    IF snapshotSize < snapshotMaxLen THEN 0 ELSE snapshotHeadIndex

\* lines 649-678: the records of the snapshot in the order of the two passes
SnapshotWindow(snapshot, head, size, maxLen) ==
    LET snapshotSize == IF size > maxLen THEN maxLen ELSE size
        snapshotHeadIndex == IF head >= maxLen THEN 0 ELSE head
        startIndex == StartIndex(snapshotSize, snapshotHeadIndex, maxLen)
    IN [i \in 1 .. snapshotSize |-> snapshot[(startIndex + (i - 1)) % maxLen]]

\* the keys of the records of class c, in window order (class-local positions)
ClassKeys(window, c) ==
    LET recs == SelectSeq(window, LAMBDA r : r[2] = c)
    IN [i \in 1 .. Len(recs) |-> recs[i][1]]

ClassesIn(window) == {window[i][2] : i \in 1 .. Len(window)}

\* faulty variant of ReuseStep: the reuse time is measured from the first
\* access to the key
ReuseStepFromFirst(st, k, idx) ==
    [first |-> IF k \in DOMAIN st.first THEN st.first ELSE (k :> idx) @@ st.first,
     last  |-> (k :> idx) @@ st.last,
     hist  |-> IF k \in DOMAIN st.last
               THEN [st.hist EXCEPT ![idx - st.first[k]] = @ + 1]
               ELSE st.hist]

\* one step of the forward pass (lines 717-739) for the access at the
\* class-local position idx
ReuseStep(st, k, idx) ==
    [first |-> IF k \in DOMAIN st.first THEN st.first ELSE (k :> idx) @@ st.first,
     last  |-> (k :> idx) @@ st.last,
     hist  |-> IF k \in DOMAIN st.last
               THEN [st.hist EXCEPT ![idx - st.last[k]] = @ + 1]
               ELSE st.hist]

RECURSIVE ForwardPass(_, _, _)
ForwardPass(keys, i, st) ==
    IF i > Len(keys) THEN st
    ELSE ForwardPass(keys, i + 1, ReuseStep(st, keys[i], i - 1))

\* lines 750-785: the sorted vector of the values of times, by counting
RECURSIVE CountingSort(_, _, _)
CountingSort(times, t, hi) ==
    IF t > hi THEN << >>
    ELSE Repeat(t, Cardinality({k \in DOMAIN times : times[k] = t}))
           \o CountingSort(times, t + 1, hi)

\* the statistics of one class: n, m, the reuse-time histogram and the two
\* sorted vectors handed to calculateFpValues
ClassStats(window, c) ==
    LET keys == ClassKeys(window, c)
        n == Len(keys)
        m == Cardinality({keys[i] : i \in 1 .. n})
        st == ForwardPass(keys, 1,
                 [first |-> EmptyMap, last |-> EmptyMap, hist |-> [t \in 0 .. n - 1 |-> 0]])
        first1 == [k \in DOMAIN st.first |-> st.first[k] + 1]
        lastRev == [k \in DOMAIN st.last |-> n - st.last[k]]
    IN [n |-> n, m |-> m, reuseTimeHistogram |-> st.hist,
        firstAccessTimes |-> CountingSort(first1, 1, n + 1),
        lastAccessTimes |-> CountingSort(lastRev, 0, n)]

calculateWindowStats(window) == [c \in ClassesIn(window) |-> ClassStats(window, c)]

(***************************************************************************)
(* calculateFpValues (lines 805-898).                                      *)
(***************************************************************************)
\* lines 828-841: suffix sums of t * R[t] and of R[t] over 1 <= t <= maxT
RECURSIVE SumTrSuffix(_, _, _)
SumTrSuffix(hist, t, maxT) ==
    IF t > maxT \/ t = 0 THEN 0 ELSE t * hist[t] + SumTrSuffix(hist, t + 1, maxT)

\* faulty variant of SumRSuffix: the suffix sums of the reuse counts stay 0
SumRSuffixZero(hist, t, maxT) == 0

RECURSIVE SumRSuffix(_, _, _)
SumRSuffix(hist, t, maxT) ==
    IF t > maxT \/ t = 0 THEN 0 ELSE hist[t] + SumRSuffix(hist, t + 1, maxT)

\* faulty variant of AdvancePtr: the pointer never moves
AdvancePtrStuck(values, p, w) == p

\* lines 866-870 and 874-878: move the pointer past the values <= w
RECURSIVE AdvancePtr(_, _, _)
AdvancePtr(values, p, w) ==
    IF p.ptr < Len(values) /\ values[p.ptr + 1] <= w
    THEN AdvancePtr(values,
                    [ptr |-> p.ptr + 1, sum |-> p.sum - values[p.ptr + 1],
                     count |-> p.count - 1], w)
    ELSE p

\* lines 864-895: the loop over the window lengths w = 1 .. n
RECURSIVE FpLoop(_, _, _, _, _)
FpLoop(stats, w, f, l, fpValues) ==
    IF w > stats.n THEN fpValues
    ELSE LET n == stats.n
             maxT == n - 1
             fNew == AdvancePtr(stats.firstAccessTimes, f, w)
             lNew == AdvancePtr(stats.lastAccessTimes, l, w)
             fW == fNew.sum - w * fNew.count
             lW == lNew.sum - w * lNew.count
             rW == IF w + 1 <= maxT
                   THEN SumTrSuffix(stats.reuseTimeHistogram, w + 1, maxT)
                          - w * SumRSuffix(stats.reuseTimeHistogram, w + 1, maxT)
                   ELSE 0
             denominator == n - w + 1
             fp == IF denominator = 0 THEN Rat(stats.m, 1)
                   ELSE Rat(stats.m * denominator - (fW + lW + rW), denominator)
         IN FpLoop(stats, w + 1, fNew, lNew, [fpValues EXCEPT ![w] = fp])

calculateFpValues(stats) ==
    FpLoop(stats, 1,
           [ptr |-> 0, sum |-> SumSeq(stats.firstAccessTimes),
            count |-> Len(stats.firstAccessTimes)],
           [ptr |-> 0, sum |-> SumSeq(stats.lastAccessTimes),
            count |-> Len(stats.lastAccessTimes)],
           [w \in 0 .. stats.n |-> RatZero])

(***************************************************************************)
(* queryMrc(classIdToAllocsPerSlabMap, maxSlabCount), lines 262-354, on    *)
(* the statistics of the snapshot.                                         *)
(***************************************************************************)
\* faulty variant of FpAtReuseTime: the footprint of the reuse time before
FpAtReuseTimeBefore(fpValues, t) ==
    IF t > 0 /\ t \in DOMAIN fpValues THEN fpValues[t - 1] ELSE RatZero

\* lines 322-325: the footprint used for the reuse time t
FpAtReuseTime(fpValues, t) ==
    IF t > 0 /\ t \in DOMAIN fpValues THEN fpValues[t] ELSE RatZero

\* faulty variant of IsHit: a reuse is a hit iff its footprint does not fit
IsHitWhenNotBelow(fpAtReuseTime, cacheSize) == ~RatLess(fpAtReuseTime, <<cacheSize, 1>>)

\* faulty variant of IsHit: a footprint equal to the cache size is a hit too
IsHitWhenFits(fpAtReuseTime, cacheSize) == RatLeq(fpAtReuseTime, <<cacheSize, 1>>)

\* line 328: a reuse is a hit iff its footprint is below the cache size
IsHit(fpAtReuseTime, cacheSize) == RatLess(fpAtReuseTime, <<cacheSize, 1>>)

\* lines 316-332
RECURSIVE HitCount(_, _, _, _)
HitCount(hist, fpValues, cacheSize, t) ==
    IF t \notin DOMAIN hist THEN 0
    ELSE (IF hist[t] > 0 /\ IsHit(FpAtReuseTime(fpValues, t), cacheSize)
          THEN hist[t] ELSE 0)
         + HitCount(hist, fpValues, cacheSize, t + 1)

\* faulty variant of ClampedMissRatio: the hit ratio is returned
ClampedHitRatio(hitCount, totalAccesses) == Rat(hitCount, totalAccesses)

\* lines 334-336: 1 - hitCount / totalAccesses, clamped to [0, 1]
ClampedMissRatio(hitCount, totalAccesses) ==
    LET r == Rat(totalAccesses - hitCount, totalAccesses)
    IN IF RatLess(r, RatZero) THEN RatZero
       ELSE IF RatLess(RatOne, r) THEN RatOne ELSE r

\* lines 310-337
MissRatioAt(stats, fpValues, allocsPerSlab, slabCount) ==
    LET cacheSize == slabCount * allocsPerSlab
    IN IF stats.n > 0 /\ cacheSize > 0
       THEN ClampedMissRatio(HitCount(stats.reuseTimeHistogram, fpValues, cacheSize, 0),
                             stats.n)
       ELSE RatOne

\* faulty variant of MrcClasses: an entry with allocsPerSlab = 0 is not skipped
MrcClassesKeepingZero(statsByClass, allocsPerSlabMap) ==
    {c \in DOMAIN allocsPerSlabMap : c \in DOMAIN statsByClass}

\* lines 264-274: the classes that get an entry
MrcClasses(statsByClass, allocsPerSlabMap) ==
    {c \in DOMAIN allocsPerSlabMap :
        allocsPerSlabMap[c] # 0 /\ c \in DOMAIN statsByClass}

\* faulty variant of ClassMrc: the loop over the slab counts runs one too far
ClassMrcOneMore(stats, allocsPerSlab, maxSlabCount) ==
    LET fpValues == calculateFpValues(stats)
        mrcPoints == [s \in 0 .. maxSlabCount + 1 |->
                         MissRatioAt(stats, fpValues, allocsPerSlab, s)]
    IN [mrcPoints |-> mrcPoints,
        mrcDelta |-> [s \in 1 .. maxSlabCount + 1 |->
                         RatSub(mrcPoints[s - 1], mrcPoints[s])],
        accessFrequency |-> stats.n]

ClassMrc(stats, allocsPerSlab, maxSlabCount) ==
    LET fpValues == calculateFpValues(stats)
        mrcPoints == [s \in 0 .. maxSlabCount |->
                         MissRatioAt(stats, fpValues, allocsPerSlab, s)]
    IN [mrcPoints |-> mrcPoints,
        mrcDelta |-> [s \in 1 .. maxSlabCount |-> RatSub(mrcPoints[s - 1], mrcPoints[s])],
        accessFrequency |-> stats.n]

queryMrcOnWindow(window, allocsPerSlabMap, maxSlabCount) ==
    LET statsByClass == calculateWindowStats(window)
    IN [c \in MrcClasses(statsByClass, allocsPerSlabMap) |->
          ClassMrc(statsByClass[c], allocsPerSlabMap[c], maxSlabCount)]

\* std::map::at and std::unordered_map::at throw std::out_of_range when the
\* key is missing
AtThrows(map, key) == key \notin DOMAIN map

\* lines 277-282, 293, 296, 317, 350: the lookups of the per-class statistics
\* for the classes queryMrc processes
queryMrcThrows(window, allocsPerSlabMap) ==
    LET statsByClass == calculateWindowStats(window)
    IN \E c \in MrcClasses(statsByClass, allocsPerSlabMap) : AtThrows(statsByClass, c)

(***************************************************************************)
(* queryMrc(cacheSizes), lines 206-236: the footprint query.               *)
(***************************************************************************)
\* faulty variant of SumFp: the cache size is not limited to the accesses of
\* the class
RECURSIVE SumFpUnclamped(_, _, _, _)
SumFpUnclamped(statsByClass, fpByClass, classes, cacheSize) ==
    IF classes = << >> THEN RatZero
    ELSE LET c == Head(classes)
         IN RatAdd(IF cacheSize \in DOMAIN fpByClass[c]
                   THEN fpByClass[c][cacheSize] ELSE RatZero,
                   SumFpUnclamped(statsByClass, fpByClass, Tail(classes), cacheSize))

RECURSIVE SumFp(_, _, _, _)
SumFp(statsByClass, fpByClass, classes, cacheSize) ==
    IF classes = << >> THEN RatZero
    ELSE LET c == Head(classes)
             w == Min(cacheSize, statsByClass[c].n)
         IN RatAdd(IF w \in DOMAIN fpByClass[c] THEN fpByClass[c][w] ELSE RatZero,
                   SumFp(statsByClass, fpByClass, Tail(classes), cacheSize))

queryFootprintOnWindow(window, cacheSizes) ==
    LET statsByClass == calculateWindowStats(window)
        fpByClass == [c \in DOMAIN statsByClass |-> calculateFpValues(statsByClass[c])]
    IN [i \in 1 .. Len(cacheSizes) |->
          SumFp(statsByClass, fpByClass, Ascending(DOMAIN statsByClass), cacheSizes[i])]

(***************************************************************************)
(* _getMissRatio (lines 909-926).                                          *)
(***************************************************************************)
SetMax(S) == CHOOSE x \in S : \A y \in S : y <= x

\* faulty variant of getMissRatio: no slab count lowers the miss ratio
getMissRatioAlwaysOne(mrcPointsDict, slabCount) == RatOne

getMissRatio(mrcPointsDict, slabCount) ==
    IF slabCount = 0 THEN RatOne
    ELSE IF slabCount \in DOMAIN mrcPointsDict THEN mrcPointsDict[slabCount]
    ELSE LET maxProfiledSlabCount ==
                 IF DOMAIN mrcPointsDict # {} THEN SetMax(DOMAIN mrcPointsDict) ELSE 0
         IN IF slabCount > maxProfiledSlabCount
            THEN (IF maxProfiledSlabCount \in DOMAIN mrcPointsDict
                  THEN mrcPointsDict[maxProfiledSlabCount] ELSE RatZero)
            ELSE RatOne

\* static_cast<double>(accessFrequency) * missRatio: a number of misses
Misses(accessFrequency, missRatio) == (accessFrequency * missRatio[1]) \div missRatio[2]

(***************************************************************************)
(* solveSlabReallocation (lines 390-580) on the result of queryMrc.        *)
(***************************************************************************)
\* stands for std::numeric_limits<double>::infinity(); every cost is >= 0
Infinity == -1

CostLess(a, b) == a # Infinity /\ (b = Infinity \/ a < b)

ZeroResult ==
    [mrOld |-> RatZero, mrNew |-> RatZero, optimalAllocation |-> EmptyMap,
     reassignmentPlan |-> << >>, accessFrequencies |-> EmptyMap]

\* lines 422-434: costTable[i] for the class with this MRC
CostRow(mrc, maxTotalSlabs, maxSlabsForMrcProfile) ==
    [j \in 0 .. maxTotalSlabs |->
        Misses(mrc.accessFrequency,
               getMissRatio(mrc.mrcPoints, Min(j, maxSlabsForMrcProfile)))]

\* faulty variant of Improves: a candidate of equal cost replaces the cell too
ImprovesOrTies(tempCost, best) == CostLess(tempCost, best) \/ tempCost = best

\* faulty variant of Improves: the comparison of line 448 reversed
ImprovesWhenDearer(tempCost, best) == best = Infinity \/ CostLess(best, tempCost)

\* line 448: a candidate replaces the cell only when it is strictly cheaper
Improves(tempCost, best) == CostLess(tempCost, best)

\* lines 443-453: the loop over k for one cell (i, j)
RECURSIVE CellLoop(_, _, _, _, _, _)
CellLoop(prevF, costRow, j, k, kMax, cell) ==
    IF k > kMax THEN cell
    ELSE CellLoop(prevF, costRow, j, k + 1, kMax,
            IF prevF[j - k] # Infinity /\ Improves(prevF[j - k] + costRow[k], cell.F)
            THEN [F |-> prevF[j - k] + costRow[k], B |-> k]
            ELSE cell)

DPRow(prevF, costRow, maxTotalSlabs, maxSlabsForMrcProfile) ==
    LET cells == [j \in 0 .. maxTotalSlabs |->
                     CellLoop(prevF, costRow, j, 0, Min(j, maxSlabsForMrcProfile),
                              [F |-> Infinity, B |-> 0])]
    IN [F |-> [j \in 0 .. maxTotalSlabs |-> cells[j].F],
        B |-> [j \in 0 .. maxTotalSlabs |-> cells[j].B]]

\* lines 436-455: rows 0 .. i of F and B; row i is element i + 1
RECURSIVE DPTable(_, _, _, _)
DPTable(classMrcData, classIds, i, maxTotalSlabs) ==
    IF i = 0
    THEN << [F |-> [j \in 0 .. maxTotalSlabs |-> IF j = 0 THEN 0 ELSE Infinity],
             B |-> [j \in 0 .. maxTotalSlabs |-> 0]] >>
    ELSE LET below == DPTable(classMrcData, classIds, i - 1, maxTotalSlabs)
         IN Append(below,
                   DPRow(below[i].F,
                         CostRow(classMrcData[classIds[i]], maxTotalSlabs, maxTotalSlabs),
                         maxTotalSlabs, maxTotalSlabs))

\* faulty variant of Backtrack: remainingSlabs is not reduced by the slabs handed out
RECURSIVE BacktrackKeepingRemaining(_, _, _, _, _)
BacktrackKeepingRemaining(table, classIds, i, remainingSlabs, allocation) ==
    IF i = 0 THEN allocation
    ELSE LET slabsForThisClass == table[i + 1].B[remainingSlabs]
         IN BacktrackKeepingRemaining(table, classIds, i - 1, remainingSlabs,
                                      (classIds[i] :> slabsForThisClass) @@ allocation)

\* lines 457-464
RECURSIVE Backtrack(_, _, _, _, _)
Backtrack(table, classIds, i, remainingSlabs, allocation) ==
    IF i = 0 THEN allocation
    ELSE LET slabsForThisClass == table[i + 1].B[remainingSlabs]
         IN Backtrack(table, classIds, i - 1, remainingSlabs - slabsForThisClass,
                      (classIds[i] :> slabsForThisClass) @@ allocation)

\* faulty variant of AllRelevantClassIds: the keys of currentSlabAllocation
\* are not added
AllRelevantClassIdsOfView(classIds, currentSlabAllocation) ==
    {classIds[i] : i \in 1 .. Len(classIds)}

\* lines 466-478
AllRelevantClassIds(classIds, currentSlabAllocation) ==
    {classIds[i] : i \in 1 .. Len(classIds)} \cup DOMAIN currentSlabAllocation

\* lines 479-510: the misses of an allocation, summed over its entries that
\* have MRC data
TotalMisses(classMrcData, allocation) ==
    LET ks == Ascending(DOMAIN allocation \cap DOMAIN classMrcData)
    IN SumSeq([i \in 1 .. Len(ks) |->
                 Misses(classMrcData[ks[i]].accessFrequency,
                        getMissRatio(classMrcData[ks[i]].mrcPoints, allocation[ks[i]]))])

\* line 533 and line 538
IsVictim(optimalSlabs, currentSlabs) == optimalSlabs < currentSlabs

IsReceiver(optimalSlabs, currentSlabs) == optimalSlabs > currentSlabs

CurrentSlabsOf(currentSlabAllocation, c) ==
    IF c \in DOMAIN currentSlabAllocation THEN currentSlabAllocation[c] ELSE 0

\* faulty variant of VictimSlabs: a victim gives all the slabs it has
RECURSIVE VictimSlabsAllCurrent(_, _, _)
VictimSlabsAllCurrent(classes, optimalAllocation, currentSlabAllocation) ==
    IF classes = << >> THEN << >>
    ELSE LET c == Head(classes)
             currentSlabs == CurrentSlabsOf(currentSlabAllocation, c)
             optimalSlabs == optimalAllocation[c]
         IN (IF IsVictim(optimalSlabs, currentSlabs)
             THEN Repeat(c, currentSlabs) ELSE << >>)
            \o VictimSlabsAllCurrent(Tail(classes), optimalAllocation,
                                     currentSlabAllocation)

\* lines 529-544, the victim queue
RECURSIVE VictimSlabs(_, _, _)
VictimSlabs(classes, optimalAllocation, currentSlabAllocation) ==
    IF classes = << >> THEN << >>
    ELSE LET c == Head(classes)
             currentSlabs == CurrentSlabsOf(currentSlabAllocation, c)
             optimalSlabs == optimalAllocation[c]
         IN (IF IsVictim(optimalSlabs, currentSlabs)
             THEN Repeat(c, currentSlabs - optimalSlabs) ELSE << >>)
            \o VictimSlabs(Tail(classes), optimalAllocation, currentSlabAllocation)

\* faulty variant of ReceiverSlabs: the classes are taken in descending order
RECURSIVE ReceiverSlabsDescending(_, _, _)
ReceiverSlabsDescending(classes, optimalAllocation, currentSlabAllocation) ==
    IF classes = << >> THEN << >>
    ELSE LET c == Head(classes)
             currentSlabs == CurrentSlabsOf(currentSlabAllocation, c)
             optimalSlabs == optimalAllocation[c]
         IN ReceiverSlabsDescending(Tail(classes), optimalAllocation,
                                    currentSlabAllocation)
            \o (IF ~IsVictim(optimalSlabs, currentSlabs)
                   /\ IsReceiver(optimalSlabs, currentSlabs)
                THEN Repeat(c, optimalSlabs - currentSlabs) ELSE << >>)

\* lines 529-544, the receiver queue
RECURSIVE ReceiverSlabs(_, _, _)
ReceiverSlabs(classes, optimalAllocation, currentSlabAllocation) ==
    IF classes = << >> THEN << >>
    ELSE LET c == Head(classes)
             currentSlabs == CurrentSlabsOf(currentSlabAllocation, c)
             optimalSlabs == optimalAllocation[c]
         IN (IF ~IsVictim(optimalSlabs, currentSlabs)
                /\ IsReceiver(optimalSlabs, currentSlabs)
             THEN Repeat(c, optimalSlabs - currentSlabs) ELSE << >>)
            \o ReceiverSlabs(Tail(classes), optimalAllocation, currentSlabAllocation)

\* lines 548-570: accesses per slab; <<1, 0>> stands for the largest double
VictimScore(a, accessFrequencies, currentSlabAllocation) ==
    IF a \in DOMAIN accessFrequencies /\ a \in DOMAIN currentSlabAllocation
    THEN IF currentSlabAllocation[a] > 0
         THEN <<accessFrequencies[a], currentSlabAllocation[a]>>
         ELSE <<1, 0>>
    ELSE <<1, 0>>

\* std::sort of a short vector is an insertion sort: each element moves
\* towards the front past the elements the comparator puts after it
RECURSIVE LinearInsert(_, _, _, _)
LinearInsert(sorted, x, accessFrequencies, currentSlabAllocation) ==
    IF sorted # << >>
       /\ RatLess(VictimScore(x, accessFrequencies, currentSlabAllocation),
                  VictimScore(sorted[Len(sorted)], accessFrequencies, currentSlabAllocation))
    THEN Append(LinearInsert(SubSeq(sorted, 1, Len(sorted) - 1), x,
                             accessFrequencies, currentSlabAllocation),
                sorted[Len(sorted)])
    ELSE Append(sorted, x)

\* faulty variant of SortVictims: the victim queue is left in class order
SortVictimsUnsorted(victims, i, accessFrequencies, currentSlabAllocation) ==
    SubSeq(victims, 1, i)

RECURSIVE SortVictims(_, _, _, _)
SortVictims(victims, i, accessFrequencies, currentSlabAllocation) ==
    IF i = 0 THEN << >>
    ELSE LinearInsert(SortVictims(victims, i - 1, accessFrequencies, currentSlabAllocation),
                      victims[i], accessFrequencies, currentSlabAllocation)

\* faulty variant of PairUp: the loop stops one pair early
PairUpAllButLast(victims, receivers) ==
    [i \in 1 .. Min(Len(victims), Len(receivers)) - 1 |-> <<victims[i], receivers[i]>>]

\* faulty variant of PairUp: the two sides of each pair exchanged
PairUpSwapped(victims, receivers) ==
    [i \in 1 .. Min(Len(victims), Len(receivers)) |-> <<receivers[i], victims[i]>>]

\* lines 575-577
PairUp(victims, receivers) ==
    [i \in 1 .. Min(Len(victims), Len(receivers)) |-> <<victims[i], receivers[i]>>]

solveOnMrcData(classMrcData, allocsPerSlabMap, currentSlabAllocation) ==
    LET maxTotalSlabs == SumMap(currentSlabAllocation)
        classIds == Ascending(DOMAIN classMrcData)
        numClasses == Len(classIds)
        accessFrequencies == [c \in DOMAIN classMrcData |-> classMrcData[c].accessFrequency]
        table == DPTable(classMrcData, classIds, numClasses, maxTotalSlabs)
        fromDP == Backtrack(table, classIds, numClasses, maxTotalSlabs, EmptyMap)
        allRelevant == AllRelevantClassIds(classIds, currentSlabAllocation)
        optimalAllocation == [c \in allRelevant |->
                                 IF c \in DOMAIN fromDP THEN fromDP[c] ELSE 0]
        totalMissesOld == TotalMisses(classMrcData, currentSlabAllocation)
        totalMissesNew == TotalMisses(classMrcData, optimalAllocation)
        totalRequestsInWindow == SumMap(accessFrequencies)
        victims == SortVictims(
                      VictimSlabs(Ascending(allRelevant), optimalAllocation,
                                  currentSlabAllocation),
                      Len(VictimSlabs(Ascending(allRelevant), optimalAllocation,
                                      currentSlabAllocation)),
                      accessFrequencies, currentSlabAllocation)
        receivers == ReceiverSlabs(Ascending(allRelevant), optimalAllocation,
                                   currentSlabAllocation)
    IN IF DOMAIN classMrcData = {} THEN ZeroResult
       ELSE IF maxTotalSlabs = 0 /\ DOMAIN allocsPerSlabMap = {} THEN ZeroResult
       ELSE [mrOld |-> IF totalRequestsInWindow > 0
                       THEN Rat(totalMissesOld, totalRequestsInWindow) ELSE RatZero,
             mrNew |-> IF totalRequestsInWindow > 0
                       THEN Rat(totalMissesNew, totalRequestsInWindow) ELSE RatZero,
             optimalAllocation |-> optimalAllocation,
             reassignmentPlan |-> PairUp(victims, receivers),
             accessFrequencies |-> accessFrequencies]

\* lines 419, 426, 427: the lookups of classMrcData for the sorted class ids;
\* line 531: the lookup of optimalAllocation for every relevant class
solveThrows(classMrcData, currentSlabAllocation, ret) ==
    LET classIds == Ascending(DOMAIN classMrcData)
    IN /\ ret # ZeroResult
       /\ \/ \E i \in 1 .. Len(classIds) : AtThrows(classMrcData, classIds[i])
          \/ \E c \in AllRelevantClassIds(classIds, currentSlabAllocation) :
                AtThrows(ret.optimalAllocation, c)

\* the outcome of a call that ends in an exception
Raised == [raised |-> "std::out_of_range"]

VARIABLES
    circularBuffer,        \* std::vector<std::tuple<KeyInt, ClassId>>
    circularBufferMaxLen,  \* size_t
    currentBufferSize,     \* size_t
    bufferHeadIndex,       \* size_t
    bufferSnapshot,        \* mutable scratch copy of the ring
    call,                  \* the query of the sequential driver: arguments, return value
    fedLog,                \* history: records fed since construction or the last reset
    fedTotal,              \* history: number of feed calls so far
    bufferMutex,           \* mutable std::mutex: the thread that holds it, or NoThread
    pc,                    \* per thread: where it stands in its call
    local,                 \* per thread: the locals of its call
    lockOrder,             \* history: <<thread, call number>> of the feeds since the last
                           \* reset, in the order in which they took the mutex
    committed,             \* history: the ring as the last critical section left it
    fedPairs               \* history: the <<KeyInt, ClassId>> pairs passed to feed

threadVars == <<bufferMutex, pc, local, lockOrder, committed, fedPairs>>

vars == <<circularBuffer, circularBufferMaxLen, currentBufferSize, bufferHeadIndex,
          bufferSnapshot, call, fedLog, fedTotal, threadVars>>

ring == <<circularBuffer, circularBufferMaxLen, currentBufferSize, bufferHeadIndex>>

(***************************************************************************)
(* feed, the critical section (lines 164-186), as a function of the ring.  *)
(***************************************************************************)
FeedHead(head, maxLen) == IF head >= maxLen THEN 0 ELSE head

\* faulty variant of FeedNextHead: the head is not advanced
FeedNextHeadStuck(currentHead, maxLen) == currentHead

FeedNextHead(currentHead, maxLen) == (currentHead + 1) % maxLen

\* faulty variant of FeedNextSize: the size grows on every feed
FeedNextSizeUnbounded(size, maxLen) == size + 1

\* faulty variant of FeedNextSize: the size starts again from 0 when a feed
\* finds the ring full
FeedNextSizeWrapping(size, maxLen) == IF size < maxLen THEN size + 1 ELSE 0

FeedNextSize(size, maxLen) == IF size < maxLen THEN size + 1 ELSE size

\* feed returns without touching anything on an unusable window (line 151).
FeedUsable(buf, maxLen) == ~(BufferLen(buf) = 0 \/ maxLen = 0)

NoCall == [op |-> "none"]

Feeders == {"feeder1", "feeder2"}

Querier == "querier"

Threads == Feeders \cup {Querier}

NoThread == "none"

NoLocals == [callNo |-> 0]

RingState(buf, head, size) == [buffer |-> buf, head |-> head, size |-> size]

\* No thread has entered a call yet.
ThreadsIdle ==
    /\ bufferMutex = NoThread
    /\ pc = [t \in Threads |-> "idle"]
    /\ local = [t \in Threads |-> NoLocals]
    /\ lockOrder = << >>
    /\ committed = RingState(circularBuffer, bufferHeadIndex, currentBufferSize)
    /\ fedPairs = {}

Init ==
    /\ \E k \in 1 .. MaxCapacity :
          /\ circularBuffer = NewBuffer(k)
          /\ circularBufferMaxLen = k
    /\ currentBufferSize = 0
    /\ bufferHeadIndex = 0
    /\ bufferSnapshot = << >>
    /\ call = NoCall
    /\ fedLog = << >>
    /\ fedTotal = 0
    /\ ThreadsIdle

\* feed as one step (lines 149-187)
FeedCall(key, classId) ==
    /\ call = NoCall
    /\ fedTotal' = fedTotal + 1
    /\ UNCHANGED call
    /\ IF FeedUsable(circularBuffer, circularBufferMaxLen)
       THEN LET keyInt == KeyIntOf(key)
                currentHead == FeedHead(bufferHeadIndex, circularBufferMaxLen)
            IN /\ circularBuffer' =
                     [circularBuffer EXCEPT ![currentHead] = <<keyInt, classId>>]
               /\ bufferHeadIndex' = FeedNextHead(currentHead, circularBufferMaxLen)
               /\ currentBufferSize' = FeedNextSize(currentBufferSize, circularBufferMaxLen)
               /\ fedLog' = Append(fedLog, <<keyInt, classId>>)
       ELSE UNCHANGED <<circularBuffer, bufferHeadIndex, currentBufferSize, fedLog>>
    /\ UNCHANGED <<circularBufferMaxLen, bufferSnapshot, threadVars>>

\* The sequential driver: construction, then up to MaxFeeds feeds and resets in
\* any order, then one query.
Feed(key, classId) ==
    /\ fedTotal < MaxFeeds
    /\ FeedCall(key, classId)

\* faulty variant of ResetSize: reset rewinds the head only
ResetSizeKept(size) == size

ResetSize(size) == 0

ResetHead(head) == 0

resetWindowAnalysis ==
    /\ call = NoCall
    /\ currentBufferSize' = ResetSize(currentBufferSize)
    /\ bufferHeadIndex' = ResetHead(bufferHeadIndex)
    /\ fedLog' = << >>
    /\ UNCHANGED <<circularBuffer, circularBufferMaxLen, bufferSnapshot, fedTotal, call,
                   threadVars>>

(***************************************************************************)
(* The queries of the sequential driver.  A query is the whole call: the   *)
(* emptiness pre-check, the snapshot and the analysis.                     *)
(***************************************************************************)
MaxCacheSize == 2     \* cache sizes of the footprint query range over 0..MaxCacheSize

AllocsMaps == UNION {[S -> 0 .. MaxAllocs] : S \in SUBSET ClassIds}

CurrentMaps == UNION {[S -> 0 .. MaxSlabs] : S \in SUBSET ClassIds}

CacheSizeLists == UNION {[1 .. len -> 0 .. MaxCacheSize] : len \in 0 .. 2}

QueryOps == {"queryFootprint", "queryMrc", "solveSlabReallocation"}

\* faulty variant of TakeSnapshot: the scratch buffer is cleared but the copy
\* is skipped when it already held a snapshot
TakeSnapshotOnce(buf, size) ==
    IF size > 0 /\ BufferLen(buf) # 0 /\ bufferSnapshot = << >> THEN buf ELSE << >>

\* lines 630-635: the scratch buffer after the snapshot step
TakeSnapshot(buf, size) == IF size > 0 /\ BufferLen(buf) # 0 THEN buf ELSE << >>

\* faulty variant of AnalysedWindow: a scratch buffer left by an earlier
\* query is analysed instead of the new snapshot
AnalysedWindowOfEarlier(snapshot, head, size, maxLen) ==
    IF size = 0 \/ BufferLen(snapshot) = 0 THEN << >>
    ELSE IF bufferSnapshot # << >> THEN SnapshotWindow(bufferSnapshot, head, size, maxLen)
    ELSE SnapshotWindow(snapshot, head, size, maxLen)

\* faulty variant of AnalysedWindow: the analysis reads the ring itself
\* instead of the snapshot
AnalysedWindowOfRing(snapshot, head, size, maxLen) ==
    IF size = 0 \/ BufferLen(circularBuffer) = 0 THEN << >>
    ELSE SnapshotWindow(circularBuffer, head, size, maxLen)

\* lines 638-678: the window the analysis reads from the snapshot
AnalysedWindow(snapshot, head, size, maxLen) ==
    IF size = 0 \/ BufferLen(snapshot) = 0 THEN << >>
    ELSE SnapshotWindow(snapshot, head, size, maxLen)

\* the emptiness pre-check (lines 198, 254)
PreCheckEmpty(size) == size = 0

\* the window a query called now analyses, and the scratch buffer it leaves
QueryWindow ==
    IF PreCheckEmpty(currentBufferSize) THEN << >>
    ELSE AnalysedWindow(TakeSnapshot(circularBuffer, currentBufferSize),
                        bufferHeadIndex, currentBufferSize, circularBufferMaxLen)

QuerySnapshot ==
    IF PreCheckEmpty(currentBufferSize) THEN bufferSnapshot
    ELSE TakeSnapshot(circularBuffer, currentBufferSize)

QueryFrame ==
    /\ call = NoCall
    /\ bufferSnapshot' = QuerySnapshot
    /\ UNCHANGED <<circularBuffer, circularBufferMaxLen, currentBufferSize,
                   bufferHeadIndex, fedLog, fedTotal, threadVars>>

queryFootprint(cacheSizes) ==
    /\ QueryFrame
    /\ call' = [op |-> "queryFootprint", cacheSizes |-> cacheSizes,
                window |-> QueryWindow,
                ret |-> IF PreCheckEmpty(currentBufferSize)
                        THEN [i \in 1 .. Len(cacheSizes) |-> RatZero]
                        ELSE queryFootprintOnWindow(QueryWindow, cacheSizes)]

queryMrc(allocsPerSlabMap, maxSlabCount) ==
    /\ QueryFrame
    /\ call' = [op |-> "queryMrc", allocsPerSlab |-> allocsPerSlabMap,
                maxSlabCount |-> maxSlabCount, window |-> QueryWindow,
                ret |-> IF PreCheckEmpty(currentBufferSize) THEN EmptyMap
                        ELSE queryMrcOnWindow(QueryWindow, allocsPerSlabMap, maxSlabCount)]

\* what a call of solveSlabReallocation made now returns or raises
solveOutcome(allocsPerSlabMap, currentSlabAllocation) ==
    LET classMrcData ==
            IF PreCheckEmpty(currentBufferSize) THEN EmptyMap
            ELSE queryMrcOnWindow(QueryWindow, allocsPerSlabMap,
                                  SumMap(currentSlabAllocation))
        ret == solveOnMrcData(classMrcData, allocsPerSlabMap, currentSlabAllocation)
    IN IF ~PreCheckEmpty(currentBufferSize)
          /\ queryMrcThrows(QueryWindow, allocsPerSlabMap)
       THEN Raised
       ELSE IF solveThrows(classMrcData, currentSlabAllocation, ret)
       THEN Raised
       ELSE ret

solveSlabReallocation(allocsPerSlabMap, currentSlabAllocation) ==
    /\ QueryFrame
    /\ call' = [op |-> "solveSlabReallocation", allocsPerSlab |-> allocsPerSlabMap,
                currentAllocation |-> currentSlabAllocation, window |-> QueryWindow,
                ret |-> solveOutcome(allocsPerSlabMap, currentSlabAllocation)]

FewAllocsMaps == {EmptyMap} \cup [ClassIds -> {MaxAllocs}]

FewCurrentMaps == {EmptyMap} \cup [ClassIds -> {MaxSlabs}]

(***************************************************************************)
(* Spec: the window driver.  Any capacity, feeds and resets in any order,  *)
(* then one query.                                                         *)
(***************************************************************************)
Next ==
    \/ \E key \in KeyTexts, classId \in ClassIds : Feed(key, classId)
    \/ resetWindowAnalysis
    \/ \E cacheSizes \in CacheSizeLists : queryFootprint(cacheSizes)
    \/ \E a \in FewAllocsMaps, maxSlabCount \in {0, MaxSlabs} : queryMrc(a, maxSlabCount)
    \/ \E a \in FewAllocsMaps, c \in FewCurrentMaps : solveSlabReallocation(a, c)

Spec == Init /\ [][Next]_vars

(***************************************************************************)
(* SpecSolve: the solver driver.  A window of capacity MaxFeeds, feeds,    *)
(* then one call of the solver with any pair of argument maps.             *)
(***************************************************************************)
InitSolve ==
    /\ circularBuffer = NewBuffer(MaxFeeds)
    /\ circularBufferMaxLen = MaxFeeds
    /\ currentBufferSize = 0
    /\ bufferHeadIndex = 0
    /\ bufferSnapshot = << >>
    /\ call = NoCall
    /\ fedLog = << >>
    /\ fedTotal = 0
    /\ ThreadsIdle

NextSolve ==
    \/ \E key \in KeyTexts, classId \in ClassIds : Feed(key, classId)
    \/ \E a \in AllocsMaps, c \in CurrentMaps : solveSlabReallocation(a, c)

SpecSolve == InitSolve /\ [][NextSolve]_vars

(***************************************************************************)
(* SpecConc: feeder threads and one querier thread on one profiler.  A     *)
(* call is a sequence of steps; the steps between taking and releasing     *)
(* bufferMutex are the critical sections of feed (lines 165-186), of the   *)
(* snapshot (lines 623-636) and of resetWindowAnalysis (lines 361-365).    *)
(* The tuple assignment of line 178 writes the two fields one after the    *)
(* other.                                                                  *)
(***************************************************************************)
MaxQueries == 2       \* calls of the querier thread

\* std::lock_guard returns once no thread holds the mutex: in feed (line 166),
\* in the snapshot (line 624) and in resetWindowAnalysis (line 362).

\* faulty variant of FeedMayLock: feed enters its critical section at once
FeedMayLockAlways(holder) == TRUE

FeedMayLock(holder) == holder = NoThread

\* faulty variant of SnapshotMayLock: the snapshot is taken without waiting
SnapshotMayLockAlways(holder) == TRUE

SnapshotMayLock(holder) == holder = NoThread

\* faulty variant of ResetMayLock: reset enters its critical section at once
ResetMayLockAlways(holder) == TRUE

ResetMayLock(holder) == holder = NoThread

Goto(t, label) == pc' = [pc EXCEPT ![t] = label]

At(t, label) == pc[t] = label

\* feed, up to the critical section (lines 149-162)
FeedEnter(t, key, classId) ==
    /\ At(t, "idle")
    /\ fedTotal < MaxFeeds
    /\ fedTotal' = fedTotal + 1
    /\ IF FeedUsable(circularBuffer, circularBufferMaxLen)
       THEN /\ local' = [local EXCEPT ![t] = [callNo |-> local[t].callNo + 1,
                                               keyInt |-> KeyIntOf(key),
                                               classId |-> classId]]
            /\ fedPairs' = fedPairs \cup {<<KeyIntOf(key), classId>>}
            /\ Goto(t, "feedLock")
       ELSE /\ local' = [local EXCEPT ![t] = [callNo |-> local[t].callNo + 1]]
            /\ UNCHANGED <<fedPairs, pc>>
    /\ UNCHANGED <<circularBuffer, circularBufferMaxLen, currentBufferSize, bufferHeadIndex,
                   bufferSnapshot, call, fedLog, bufferMutex, lockOrder, committed>>

\* lines 166-175: take the mutex, read and correct the head
FeedLock(t) ==
    /\ At(t, "feedLock")
    /\ FeedMayLock(bufferMutex)
    /\ bufferMutex' = t
    /\ LET currentHead == FeedHead(bufferHeadIndex, circularBufferMaxLen)
       IN /\ local' = [local EXCEPT ![t] =
                          [callNo |-> local[t].callNo, keyInt |-> local[t].keyInt,
                           classId |-> local[t].classId, currentHead |-> currentHead]]
          /\ bufferHeadIndex' = currentHead
    /\ fedLog' = Append(fedLog, <<local[t].keyInt, local[t].classId>>)
    /\ lockOrder' = Append(lockOrder, <<t, local[t].callNo>>)
    /\ Goto(t, "feedWriteKey")
    /\ UNCHANGED <<circularBuffer, circularBufferMaxLen, currentBufferSize,
                   bufferSnapshot, call, fedTotal, committed, fedPairs>>

\* line 178, first field of the tuple
FeedWriteKey(t) ==
    /\ At(t, "feedWriteKey")
    /\ circularBuffer' = [circularBuffer EXCEPT ![local[t].currentHead][1] = local[t].keyInt]
    /\ Goto(t, "feedWriteClass")
    /\ UNCHANGED <<circularBufferMaxLen, currentBufferSize, bufferHeadIndex, bufferSnapshot,
                   call, fedLog, fedTotal, bufferMutex, local, lockOrder, committed, fedPairs>>

\* line 178, second field of the tuple
FeedWriteClass(t) ==
    /\ At(t, "feedWriteClass")
    /\ circularBuffer' = [circularBuffer EXCEPT ![local[t].currentHead][2] = local[t].classId]
    /\ Goto(t, "feedAdvance")
    /\ UNCHANGED <<circularBufferMaxLen, currentBufferSize, bufferHeadIndex, bufferSnapshot,
                   call, fedLog, fedTotal, bufferMutex, local, lockOrder, committed, fedPairs>>

\* line 181
FeedAdvance(t) ==
    /\ At(t, "feedAdvance")
    /\ bufferHeadIndex' = FeedNextHead(local[t].currentHead, circularBufferMaxLen)
    /\ Goto(t, "feedGrow")
    /\ UNCHANGED <<circularBuffer, circularBufferMaxLen, currentBufferSize, bufferSnapshot,
                   call, fedLog, fedTotal, bufferMutex, local, lockOrder, committed, fedPairs>>

\* lines 183-185
FeedGrow(t) ==
    /\ At(t, "feedGrow")
    /\ currentBufferSize' = FeedNextSize(currentBufferSize, circularBufferMaxLen)
    /\ Goto(t, "feedUnlock")
    /\ UNCHANGED <<circularBuffer, circularBufferMaxLen, bufferHeadIndex, bufferSnapshot,
                   call, fedLog, fedTotal, bufferMutex, local, lockOrder, committed, fedPairs>>

\* line 186: the lock_guard goes out of scope and feed returns
FeedUnlock(t) ==
    /\ At(t, "feedUnlock")
    /\ bufferMutex' = NoThread
    /\ committed' = RingState(circularBuffer, bufferHeadIndex, currentBufferSize)
    /\ local' = [local EXCEPT ![t] = [callNo |-> local[t].callNo]]
    /\ Goto(t, "idle")
    /\ UNCHANGED <<circularBuffer, circularBufferMaxLen, currentBufferSize, bufferHeadIndex,
                   bufferSnapshot, call, fedLog, fedTotal, lockOrder, fedPairs>>

\* A query up to the snapshot: the emptiness pre-check (lines 198, 254) reads
\* currentBufferSize without the mutex, racing with line 184; the read returns
\* the value before or after the racing write, as the step order decides.
QueryEnter ==
    /\ At(Querier, "idle")
    /\ local[Querier].callNo < MaxQueries
    /\ IF PreCheckEmpty(currentBufferSize)
       THEN /\ local' = [local EXCEPT ![Querier] = [callNo |-> local[Querier].callNo + 1,
                                                     window |-> << >>]]
            /\ UNCHANGED pc
       ELSE /\ local' = [local EXCEPT ![Querier] = [callNo |-> local[Querier].callNo + 1]]
            /\ Goto(Querier, "snapshotLock")
    /\ UNCHANGED <<circularBuffer, circularBufferMaxLen, currentBufferSize, bufferHeadIndex,
                   bufferSnapshot, call, fedLog, fedTotal, bufferMutex, lockOrder,
                   committed, fedPairs>>

\* line 624
SnapshotLock ==
    /\ At(Querier, "snapshotLock")
    /\ SnapshotMayLock(bufferMutex)
    /\ bufferMutex' = Querier
    /\ Goto(Querier, "snapshotCopy")
    /\ UNCHANGED <<circularBuffer, circularBufferMaxLen, currentBufferSize, bufferHeadIndex,
                   bufferSnapshot, call, fedLog, fedTotal, local, lockOrder, committed,
                   fedPairs>>

\* lines 625-635; atSnapshot and logAtSnapshot remember what the last critical
\* section left and the records fed by then
SnapshotCopy ==
    /\ At(Querier, "snapshotCopy")
    /\ local' = [local EXCEPT ![Querier] =
                    [callNo |-> local[Querier].callNo,
                     snapshotSize |-> currentBufferSize,
                     snapshotHeadIndex |-> bufferHeadIndex,
                     snapshotMaxLen |-> circularBufferMaxLen,
                     atSnapshot |-> committed,
                     logAtSnapshot |-> fedLog]]
    /\ bufferSnapshot' = TakeSnapshot(circularBuffer, currentBufferSize)
    /\ Goto(Querier, "snapshotUnlock")
    /\ UNCHANGED <<circularBuffer, circularBufferMaxLen, currentBufferSize, bufferHeadIndex,
                   call, fedLog, fedTotal, bufferMutex, lockOrder, committed, fedPairs>>

\* line 636
SnapshotUnlock ==
    /\ At(Querier, "snapshotUnlock")
    /\ bufferMutex' = NoThread
    /\ Goto(Querier, "analyse")
    /\ UNCHANGED <<circularBuffer, circularBufferMaxLen, currentBufferSize, bufferHeadIndex,
                   bufferSnapshot, call, fedLog, fedTotal, local, lockOrder, committed,
                   fedPairs>>

\* lines 638-678: the analysis reads the snapshot outside the mutex
Analyse ==
    /\ At(Querier, "analyse")
    /\ local' = [local EXCEPT ![Querier] =
                    [f \in DOMAIN local[Querier] \cup {"window"} |->
                        IF f = "window"
                        THEN AnalysedWindow(bufferSnapshot, local[Querier].snapshotHeadIndex,
                                            local[Querier].snapshotSize,
                                            local[Querier].snapshotMaxLen)
                        ELSE local[Querier][f]]]
    /\ Goto(Querier, "idle")
    /\ UNCHANGED <<circularBuffer, circularBufferMaxLen, currentBufferSize, bufferHeadIndex,
                   bufferSnapshot, call, fedLog, fedTotal, bufferMutex, lockOrder,
                   committed, fedPairs>>

\* resetWindowAnalysis called by the querier thread
ResetEnter ==
    /\ At(Querier, "idle")
    /\ local[Querier].callNo < MaxQueries
    /\ local' = [local EXCEPT ![Querier] = [callNo |-> local[Querier].callNo + 1]]
    /\ Goto(Querier, "resetLock")
    /\ UNCHANGED <<circularBuffer, circularBufferMaxLen, currentBufferSize, bufferHeadIndex,
                   bufferSnapshot, call, fedLog, fedTotal, bufferMutex, lockOrder,
                   committed, fedPairs>>

\* line 362
ResetLock ==
    /\ At(Querier, "resetLock")
    /\ ResetMayLock(bufferMutex)
    /\ bufferMutex' = Querier
    /\ Goto(Querier, "resetWrite")
    /\ UNCHANGED <<circularBuffer, circularBufferMaxLen, currentBufferSize, bufferHeadIndex,
                   bufferSnapshot, call, fedLog, fedTotal, local, lockOrder, committed,
                   fedPairs>>

\* lines 363-364
ResetWrite ==
    /\ At(Querier, "resetWrite")
    /\ currentBufferSize' = ResetSize(currentBufferSize)
    /\ bufferHeadIndex' = ResetHead(bufferHeadIndex)
    /\ fedLog' = << >>
    /\ lockOrder' = << >>
    /\ Goto(Querier, "resetUnlock")
    /\ UNCHANGED <<circularBuffer, circularBufferMaxLen, bufferSnapshot, call, fedTotal,
                   bufferMutex, local, committed, fedPairs>>

\* line 365
ResetUnlock ==
    /\ At(Querier, "resetUnlock")
    /\ bufferMutex' = NoThread
    /\ committed' = RingState(circularBuffer, bufferHeadIndex, currentBufferSize)
    /\ Goto(Querier, "idle")
    /\ UNCHANGED <<circularBuffer, circularBufferMaxLen, currentBufferSize, bufferHeadIndex,
                   bufferSnapshot, call, fedLog, fedTotal, local, lockOrder, fedPairs>>

\* The threads share a profiler whose capacity is one less than the number of
\* feeds, so that the ring wraps.
InitConc ==
    /\ circularBuffer = NewBuffer(MaxFeeds - 1)
    /\ circularBufferMaxLen = MaxFeeds - 1
    /\ currentBufferSize = 0
    /\ bufferHeadIndex = 0
    /\ bufferSnapshot = << >>
    /\ call = NoCall
    /\ fedLog = << >>
    /\ fedTotal = 0
    /\ ThreadsIdle

\* the accesses the feeder threads pass: a key that parses and a key that is
\* hashed, of different classes
ConcFeeds == { << <<"1">>, 1 >>, << <<"k">>, 2 >> }

NextConc ==
    \/ \E t \in Feeders, access \in ConcFeeds : FeedEnter(t, access[1], access[2])
    \/ \E t \in Feeders : FeedLock(t)
    \/ \E t \in Feeders : FeedWriteKey(t)
    \/ \E t \in Feeders : FeedWriteClass(t)
    \/ \E t \in Feeders : FeedAdvance(t)
    \/ \E t \in Feeders : FeedGrow(t)
    \/ \E t \in Feeders : FeedUnlock(t)
    \/ QueryEnter
    \/ SnapshotLock
    \/ SnapshotCopy
    \/ SnapshotUnlock
    \/ Analyse
    \/ ResetEnter
    \/ ResetLock
    \/ ResetWrite
    \/ ResetUnlock

SpecConc == InitConc /\ [][NextConc]_vars

(***************************************************************************)
(* Properties of the solver, checked under SpecSolve.                      *)
(***************************************************************************)
SolveReturned == call.op = "solveSlabReallocation"

NonZeroReturned == SolveReturned /\ call.ret # ZeroResult

\* the MRC view of the call: the result of queryMrc on the analysed window
ViewOfCall ==
    queryMrcOnWindow(call.window, call.allocsPerSlab, SumMap(call.currentAllocation))

\* the misses of an assignment of slab counts to the classes of the view
MissesOfAssignment(view, a) ==
    LET ks == Ascending(DOMAIN view)
    IN SumSeq([i \in 1 .. Len(ks) |->
                 Misses(view[ks[i]].accessFrequency,
                        getMissRatio(view[ks[i]].mrcPoints, a[ks[i]]))])

Assignments(classes, budget) == {a \in [classes -> 0 .. budget] : SumMap(a) = budget}

CountIn(seq, x) == Cardinality({i \in 1 .. Len(seq) : seq[i] = x})

PlanVictims(plan) == [i \in 1 .. Len(plan) |-> plan[i][1]]

PlanReceivers(plan) == [i \in 1 .. Len(plan) |-> plan[i][2]]

\* C1 as stated: for every window and every pair of argument maps, the sum
\* of optimalAllocation equals the sum of currentAllocation.
C1_BudgetConservedForAnyInput ==
    SolveReturned =>
        SumMap(call.ret.optimalAllocation) = SumMap(call.currentAllocation)

\* C1 amended: whenever the solver returns a non-zero result (some class
\* occurs both in the window and in allocsPerSlab with a non-zero value), the
\* sum of optimalAllocation equals the sum of currentAllocation, whether or
\* not the key sets of the two argument maps coincide; in the degenerate case
\* optimalAllocation is empty.
C1_BudgetConserved ==
    SolveReturned =>
        IF DOMAIN ViewOfCall # {}
        THEN SumMap(call.ret.optimalAllocation) = SumMap(call.currentAllocation)
        ELSE call.ret.optimalAllocation = EmptyMap

\* C1 witness: a non-zero result for argument maps with different key sets
\* and a positive budget, in which slabs of a class outside the view moved.
C1_Witness ==
    /\ NonZeroReturned
    /\ DOMAIN call.allocsPerSlab # DOMAIN call.currentAllocation
    /\ SumMap(call.currentAllocation) > 1
    /\ \E c \in DOMAIN call.currentAllocation :
          /\ c \notin DOMAIN ViewOfCall
          /\ call.currentAllocation[c] > 0
    /\ call.ret.reassignmentPlan # << >>

\* C2: the solver never returns mrNew > mrOld.
C2_NewMissRateNotWorse ==
    SolveReturned => RatLeq(call.ret.mrNew, call.ret.mrOld)

\* C3: in a non-zero result the optimalAllocation, restricted to the classes
\* of the MRC view, sums to the budget B and its misses are the minimum over
\* all assignments of B slabs to the classes of the view.
C3_AllocationIsOptimal ==
    NonZeroReturned =>
        LET view == ViewOfCall
            budget == SumMap(call.currentAllocation)
            chosen == [c \in DOMAIN view |-> call.ret.optimalAllocation[c]]
        IN /\ chosen \in Assignments(DOMAIN view, budget)
           /\ \A a \in Assignments(DOMAIN view, budget) :
                 MissesOfAssignment(view, chosen) <= MissesOfAssignment(view, a)

\* C3 witness: two classes in the view, a budget of at least two slabs, and
\* assignments of different cost, the chosen one being cheaper than the
\* current one.
C3_Witness ==
    /\ NonZeroReturned
    /\ Cardinality(DOMAIN ViewOfCall) = 2
    /\ SumMap(call.currentAllocation) >= 2
    /\ DOMAIN call.currentAllocation = DOMAIN ViewOfCall
    /\ MissesOfAssignment(ViewOfCall,
                          [c \in DOMAIN ViewOfCall |-> call.ret.optimalAllocation[c]])
         < MissesOfAssignment(ViewOfCall, call.currentAllocation)

\* C9: in a non-zero result the victim queue and the receiver queue have the
\* same length, and for every class the number of pairs that receive into it
\* minus the number of pairs that take from it is optimalAllocation minus
\* currentAllocation (a missing currentAllocation entry counting as 0).
C9_PlanRealisesAllocation ==
    NonZeroReturned =>
        LET opt == call.ret.optimalAllocation
            cur == call.currentAllocation
            plan == call.ret.reassignmentPlan
            classes == Ascending(DOMAIN opt)
        IN /\ Len(VictimSlabs(classes, opt, cur)) = Len(ReceiverSlabs(classes, opt, cur))
           /\ \A i \in 1 .. Len(plan) : plan[i][1] \in DOMAIN opt /\ plan[i][2] \in DOMAIN opt
           /\ \A c \in DOMAIN opt :
                 CountIn(PlanReceivers(plan), c) - CountIn(PlanVictims(plan), c)
                   = opt[c] - CurrentSlabsOf(cur, c)

\* C9 witness: a plan of at least two pairs, one of whose classes has no
\* currentAllocation entry.
C9_Witness ==
    /\ NonZeroReturned
    /\ Len(call.ret.reassignmentPlan) >= 2
    /\ \E i \in 1 .. Len(call.ret.reassignmentPlan) :
          call.ret.reassignmentPlan[i][2] \notin DOMAIN call.currentAllocation

\* C10: every pair of the plan takes from a class whose optimal allocation is
\* below its current one and gives to a class whose optimal allocation is
\* above its current one; so no class is on both sides.
C10_VictimsShrinkReceiversGrow ==
    SolveReturned =>
        LET opt == call.ret.optimalAllocation
            cur == call.currentAllocation
            plan == call.ret.reassignmentPlan
        IN /\ \A i \in 1 .. Len(plan) :
                 /\ opt[plan[i][1]] < CurrentSlabsOf(cur, plan[i][1])
                 /\ opt[plan[i][2]] > CurrentSlabsOf(cur, plan[i][2])
                 /\ plan[i][1] # plan[i][2]
           /\ \A i, j \in 1 .. Len(plan) : plan[i][1] # plan[j][2]

\* C10 witness: a plan with a pair in it.
C10_Witness ==
    /\ SolveReturned
    /\ Len(call.ret.reassignmentPlan) >= 1
    /\ call.ret.mrNew # call.ret.mrOld

(***************************************************************************)
(* Properties of the window, checked under Spec.                           *)
(***************************************************************************)
QueryReturned == call.op \in QueryOps

\* the last count elements of seq
LastN(seq, count) == SubSeq(seq, Len(seq) - count + 1, Len(seq))

\* the window as fed: the last min(w, K) records fed since construction or
\* the last reset, oldest first
FedWindow == LastN(fedLog, Min(Len(fedLog), circularBufferMaxLen))

\* C6: after any sequence of feed and reset, the snapshot of the ring read in
\* logical order is the sequence of the last min(w, K) records fed since
\* construction or the last reset, oldest first; a query analyses exactly
\* that sequence, on a snapshot that is a copy of the whole ring.
C6_WindowIsLastRecordsFed ==
    /\ AnalysedWindow(TakeSnapshot(circularBuffer, currentBufferSize), bufferHeadIndex,
                      currentBufferSize, circularBufferMaxLen) = FedWindow
    /\ QueryReturned =>
          /\ call.window = FedWindow
          /\ currentBufferSize > 0 => bufferSnapshot = circularBuffer

\* C6 witness: a query returned on a ring of capacity 2 or more that has
\* wrapped and whose oldest record is not in slot 0.
C6_Witness ==
    /\ QueryReturned
    /\ circularBufferMaxLen >= 2
    /\ Len(fedLog) > circularBufferMaxLen
    /\ bufferHeadIndex # 0
    /\ call.window # << >>

\* C7: in every state the ring has exactly K slots, K >= 1, 0 <= head < K,
\* 0 <= size <= K, size = min(w, K) and head = w mod K, w being the number
\* of feeds since construction or the last reset.
C7_RingIndicesFollowFeeds ==
    /\ circularBufferMaxLen >= 1
    /\ DOMAIN circularBuffer = 0 .. circularBufferMaxLen - 1
    /\ bufferHeadIndex \in 0 .. circularBufferMaxLen - 1
    /\ currentBufferSize \in 0 .. circularBufferMaxLen
    /\ currentBufferSize = Min(Len(fedLog), circularBufferMaxLen)
    /\ bufferHeadIndex = Len(fedLog) % circularBufferMaxLen

\* C7 witness: more feeds than slots on a ring of capacity 2 or more.
C7_Witness ==
    /\ circularBufferMaxLen >= 2
    /\ Len(fedLog) > circularBufferMaxLen
    /\ call = NoCall

\* C8: when no record was fed since the last reset, size = 0 and head = 0,
\* and a query returns the zero result: one 0 per requested cache size, an
\* empty MRC map, the zero tuple of the solver.
C8_QueryAfterResetIsZero ==
    fedLog = << >> =>
        /\ currentBufferSize = 0
        /\ bufferHeadIndex = 0
        /\ call.op = "queryFootprint" =>
              call.ret = [i \in 1 .. Len(call.cacheSizes) |-> RatZero]
        /\ call.op = "queryMrc" => call.ret = EmptyMap
        /\ call.op = "solveSlabReallocation" => call.ret = ZeroResult

\* C8 witness: the solver called right after a reset that followed feeds of
\* both classes, with argument maps that name both classes.
C8_Witness ==
    /\ fedLog = << >>
    /\ \E i, j \in DOMAIN circularBuffer :
          circularBuffer[i][2] = 1 /\ circularBuffer[j][2] = 2
    /\ call.op = "solveSlabReallocation"
    /\ DOMAIN call.allocsPerSlab = ClassIds
    /\ DOMAIN call.currentAllocation = ClassIds
(***************************************************************************)
(* Properties of the threads, checked under SpecConc.                      *)
(***************************************************************************)
InCriticalSection(t) ==
    pc[t] \in {"feedWriteKey", "feedWriteClass", "feedAdvance", "feedGrow", "feedUnlock",
               "snapshotCopy", "snapshotUnlock", "resetWrite", "resetUnlock"}

Quiescent == \A t \in Threads : ~InCriticalSection(t)

HasSnapshot == "atSnapshot" \in DOMAIN local[Querier]

ProgramOrder(order) ==
    \A i, j \in 1 .. Len(order) :
        (i < j /\ order[i][1] = order[j][1]) => order[i][2] < order[j][2]

\* C4: with feeders running concurrently with the querier, the snapshot a query
\* takes (ring copy, head, size) is the ring as a completed critical section
\* left it: head and size are those of that state and the copy is its ring, the
\* window read from it is the last records fed by then, and every record of the
\* copy was passed as one pair to one feed call (or is a slot never written).
C4_SnapshotIsACommittedState ==
    HasSnapshot =>
        LET l == local[Querier]
            window == AnalysedWindow(bufferSnapshot, l.snapshotHeadIndex, l.snapshotSize,
                                     l.snapshotMaxLen)
        IN /\ l.snapshotSize = l.atSnapshot.size
           /\ l.snapshotHeadIndex = l.atSnapshot.head
           /\ bufferSnapshot = TakeSnapshot(l.atSnapshot.buffer, l.atSnapshot.size)
           /\ l.snapshotSize > 0 => bufferSnapshot = l.atSnapshot.buffer
           /\ window = LastN(l.logAtSnapshot, Min(Len(l.logAtSnapshot), l.snapshotMaxLen))
           /\ \A i \in DOMAIN bufferSnapshot :
                 bufferSnapshot[i] \in fedPairs \cup {EmptyRecord}
           /\ \A i \in 1 .. Len(window) : window[i] \in fedPairs

\* a snapshot of a full ring holding records of both feeders, taken while a
\* feeder waits for the mutex
C4_Witness ==
    /\ HasSnapshot
    /\ At(Querier, "snapshotUnlock")
    /\ \E t \in Feeders : At(t, "feedLock")
    /\ Len(local[Querier].logAtSnapshot) >= circularBufferMaxLen
    /\ circularBufferMaxLen >= 2
    /\ {lockOrder[i][1] : i \in 1 .. Len(lockOrder)} = Feeders
    /\ \E i, j \in DOMAIN bufferSnapshot : bufferSnapshot[i] # bufferSnapshot[j]

\* C5: with several feeders, whenever no thread is inside a critical section
\* the ring holds the last min(f, K) records in the order in which their feeds
\* took the mutex, size = min(f, K) and head = f mod K, where f is the number of
\* feeds since the last reset; the feeds of one thread took the mutex in that
\* thread's program order, and no feed appears twice.
C5_FeedsSerialisedInLockOrder ==
    Quiescent =>
        LET f == Len(fedLog)
            K == circularBufferMaxLen
        IN /\ Len(lockOrder) = f
           /\ AnalysedWindow(circularBuffer, bufferHeadIndex, currentBufferSize, K)
                 = LastN(fedLog, Min(f, K))
           /\ currentBufferSize = Min(f, K)
           /\ bufferHeadIndex = f % K
           /\ ProgramOrder(lockOrder)
           /\ \A i, j \in 1 .. f : lockOrder[i] = lockOrder[j] => i = j

\* the feeds of two threads interleaved, around a wrapped ring
C5_Witness ==
    /\ Quiescent
    /\ lockOrder = << <<"feeder1", 1>>, <<"feeder2", 1>>, <<"feeder1", 2>> >>
    /\ circularBufferMaxLen = 2
    /\ fedLog[1] # fedLog[2] /\ fedLog[2] # fedLog[3]
    /\ \A t \in Threads : At(t, "idle")

(***************************************************************************)
(* SpecPlan: the solver on three classes.  The profiler has been fed a     *)
(* window of up to MaxWindow accesses, one key per class, and the solver   *)
(* is called once with any slab counts for the three classes.              *)
(***************************************************************************)
MaxWindow == 4        \* accesses fed before the solver is called

PlanClassIds == {1, 2, 3}

\* the ring of a fresh profiler of capacity k after feeding the records of
\* window, no more than k of them
FedRing(k, window) ==
    [i \in 0 .. k - 1 |-> IF i < Len(window) THEN window[i + 1] ELSE EmptyRecord]

\* the profiler of capacity k after construction and the feeds of window
FedProfiler(k, window) ==
    /\ circularBuffer = FedRing(k, window)
    /\ circularBufferMaxLen = k
    /\ currentBufferSize = Len(window)
    /\ bufferHeadIndex = Len(window) % k
    /\ bufferSnapshot = << >>
    /\ call = NoCall
    /\ fedLog = window
    /\ fedTotal = Len(window)
    /\ ThreadsIdle

PlanWindows ==
    UNION {[1 .. len -> {<<KeyIntOf(<<"1">>), c>> : c \in PlanClassIds}] :
              len \in 0 .. MaxWindow}

InitPlan == \E window \in PlanWindows : FedProfiler(MaxWindow, window)

\* every class with one object per slab, or every class with MaxAllocs
PlanAllocsMaps == {[c \in PlanClassIds |-> n] : n \in {1, MaxAllocs}}

PlanCurrentMaps == [PlanClassIds -> 0 .. MaxSlabs]

NextPlan == \E a \in PlanAllocsMaps, c \in PlanCurrentMaps : solveSlabReallocation(a, c)

SpecPlan == InitPlan /\ [][NextPlan]_vars

(***************************************************************************)
(* Properties of the plan, checked under SpecPlan.                         *)
(***************************************************************************)
\* accesses per slab of a victim class as <<accesses, slabs>>; <<1, 0>> is
\* +infinity, the pressure of a class without an access count
Pressure(c) ==
    IF c \in DOMAIN call.ret.accessFrequencies /\ CurrentSlabsOf(call.currentAllocation, c) > 0
    THEN <<call.ret.accessFrequencies[c], call.currentAllocation[c]>>
    ELSE <<1, 0>>

PressureLeq(p, q) ==
    \/ q[2] = 0
    \/ p[2] # 0 /\ p[1] * q[2] <= q[1] * p[2]

\* C11: the victims of the reassignmentPlan appear in non-decreasing order of
\* score(c) = n_c / currentAllocation[c], a victim without an access count in
\* the MRC view having score +infinity and so coming last.
C11_VictimsInPressureOrder ==
    SolveReturned =>
        LET victims == PlanVictims(call.ret.reassignmentPlan)
        IN \A i, j \in 1 .. Len(victims) :
              i < j => PressureLeq(Pressure(victims[i]), Pressure(victims[j]))

\* two victim classes in the plan, the one with the larger class id first
C11_Witness ==
    /\ SolveReturned
    /\ LET victims == PlanVictims(call.ret.reassignmentPlan)
       IN \E i, j \in 1 .. Len(victims) :
             /\ i < j
             /\ victims[i] > victims[j]
             /\ Pressure(victims[j])[2] # 0
             /\ ~PressureLeq(Pressure(victims[j]), Pressure(victims[i]))

(***************************************************************************)
(* Totality of the solver, checked under SpecSolve.                        *)
(***************************************************************************)
ResultFields ==
    {"mrOld", "mrNew", "optimalAllocation", "reassignmentPlan", "accessFrequencies"}

\* no class occurs both in the analysed window and in allocsPerSlab with a
\* non-zero value (an empty window included)
NoClassToProfile ==
    ~ \E c \in DOMAIN call.allocsPerSlab :
         /\ call.allocsPerSlab[c] # 0
         /\ \E i \in 1 .. Len(call.window) : call.window[i][2] = c

MaxAccesses == 5      \* accesses fed before the analysis

AnalysisKeyTexts == { <<"1">>, <<"2">>, <<"3">> }

AnalysisWindows ==
    UNION {[1 .. len -> {<<KeyIntOf(key), c>> : key \in AnalysisKeyTexts, c \in ClassIds}] :
              len \in 0 .. MaxAccesses}

InitAnalysis == \E window \in AnalysisWindows : FedProfiler(MaxAccesses, window)

\* the snapshot, calculateWindowStats and calculateFpValues for one class of
\* the window
analyseClass(c) ==
    /\ QueryFrame
    /\ ~PreCheckEmpty(currentBufferSize)
    /\ c \in DOMAIN calculateWindowStats(QueryWindow)
    /\ call' = [op |-> "calculateFpValues", classId |-> c, window |-> QueryWindow,
                stats |-> calculateWindowStats(QueryWindow)[c],
                fpValues |-> calculateFpValues(calculateWindowStats(QueryWindow)[c])]

NextFp == \E c \in ClassIds : analyseClass(c)

SpecFp == InitAnalysis /\ [][NextFp]_vars

(***************************************************************************)
(* Properties of the footprint, checked under SpecFp.                      *)
(***************************************************************************)
FpReturned == call.op = "calculateFpValues"

\* the keys of the analysed class in window order
AnalysedKeys ==
    LET idx == {i \in 1 .. Len(call.window) : call.window[i][2] = call.classId}
        pos == Ascending(idx)
    IN [i \in 1 .. Len(pos) |-> call.window[pos[i]][1]]

DistinctIn(keys, from, w) == Cardinality({keys[i] : i \in from .. from + w - 1})

\* the sum, over the windows of length w of keys, of their distinct keys
RECURSIVE SumDistinct(_, _, _)
SumDistinct(keys, from, w) ==
    IF from + w - 1 > Len(keys) THEN 0
    ELSE DistinctIn(keys, from, w) + SumDistinct(keys, from + 1, w)

\* C13: for every class of the snapshot the footprint vector has fp(0) = 0,
\* fp(n) = m and fp(w) <= fp(w + 1) for 0 <= w < n.
C13_FootprintMonotone ==
    FpReturned =>
        LET n == call.stats.n
            fp == call.fpValues
        IN /\ DOMAIN fp = 0 .. n
           /\ fp[0] = RatZero
           /\ fp[n] = Rat(call.stats.m, 1)
           /\ \A w \in 0 .. n - 1 : RatLeq(fp[w], fp[w + 1])

\* a class with reuses, interleaved with the other class, whose footprint
\* grows strictly and takes a fractional value
C13_Witness ==
    /\ FpReturned
    /\ call.stats.n >= 4
    /\ call.stats.m >= 2
    /\ call.stats.m < call.stats.n
    /\ Len(call.window) > call.stats.n
    /\ \E w \in 1 .. call.stats.n : call.fpValues[w][2] # 1

\* C14: for every class of the snapshot and every w in 1..n, fp(w) is the
\* average, over the n - w + 1 contiguous windows of length w of the class's
\* accesses, of the number of distinct keys in the window.
C14_FootprintIsWindowAverage ==
    FpReturned =>
        LET keys == AnalysedKeys
            n == call.stats.n
        IN /\ Len(keys) = n
           /\ \A w \in 1 .. n :
                 call.fpValues[w] = Rat(SumDistinct(keys, 1, w), n - w + 1)

\* a class with three keys and reuses at different distances
C14_Witness ==
    /\ FpReturned
    /\ call.stats.n = MaxAccesses
    /\ call.stats.m = 3
    /\ \E t \in 2 .. call.stats.n - 1 : call.stats.reuseTimeHistogram[t] > 0
    /\ call.stats.reuseTimeHistogram[1] > 0

(***************************************************************************)
(* SpecMrc: the miss-ratio curves.  The profiler has been fed a window as  *)
(* in SpecFp; queryMrc is called once for both classes with the same       *)
(* number of objects per slab and slab counts up to MaxSlabs + 1.          *)
(***************************************************************************)
MrcAllocsMaps == {[c \in ClassIds |-> n] : n \in {1, MaxAllocs}}

NextMrc == \E a \in MrcAllocsMaps : queryMrc(a, MaxSlabs + 1)

SpecMrc == InitAnalysis /\ [][NextMrc]_vars

(***************************************************************************)
(* Properties of the miss-ratio curves, checked under SpecMrc.             *)
(***************************************************************************)
MrcReturned == call.op = "queryMrc"

\* the keys of class c in the analysed window, in window order
KeysOfClass(c) ==
    LET idx == {i \in 1 .. Len(call.window) : call.window[i][2] = c}
        pos == Ascending(idx)
    IN [i \in 1 .. Len(pos) |-> call.window[pos[i]][1]]

AccessesOf(c) == Len(KeysOfClass(c))

DistinctKeysOf(c) == Cardinality({KeysOfClass(c)[i] : i \in 1 .. AccessesOf(c)})

\* C15: for every class returned by queryMrc, miss_ratio(0) = 1, the curve is
\* non-increasing in the slab count, and every value lies in [0, 1] and is at
\* least the compulsory-miss ratio m / n.
C15_MissRatioCurveShape ==
    MrcReturned =>
        \A c \in DOMAIN call.ret :
            LET mr == call.ret[c].mrcPoints
            IN /\ DOMAIN mr = 0 .. call.maxSlabCount
               /\ mr[0] = RatOne
               /\ \A s \in 0 .. call.maxSlabCount - 1 : RatLeq(mr[s + 1], mr[s])
               /\ \A s \in DOMAIN mr :
                     /\ RatLeq(RatZero, mr[s])
                     /\ RatLeq(mr[s], RatOne)
                     /\ RatLeq(Rat(DistinctKeysOf(c), AccessesOf(c)), mr[s])

\* a curve that falls in two steps down to the compulsory-miss ratio
C15_Witness ==
    /\ MrcReturned
    /\ \E c \in DOMAIN call.ret :
          LET mr == call.ret[c].mrcPoints
          IN /\ \E s \in 1 .. call.maxSlabCount - 1 :
                   /\ RatLess(mr[s], RatOne)
                   /\ RatLess(mr[s + 1], mr[s])
             /\ mr[call.maxSlabCount] = Rat(DistinctKeysOf(c), AccessesOf(c))

(***************************************************************************)
(* SpecSingleKey: perfect locality.  One class feeds key 7 SingleKeyFeeds  *)
(* times into a profiler that holds them all; the class is then analysed   *)
(* or its curve queried with one object per slab.                          *)
(***************************************************************************)
SingleKeyFeeds == 26      \* feeds of the one key

InitSingleKey ==
    \E k \in {SingleKeyFeeds, SingleKeyFeeds + 1} : FedProfiler(k, << >>)

FeedSingleKey(classId) ==
    /\ fedTotal < SingleKeyFeeds
    /\ IF fedLog = << >> THEN TRUE ELSE fedLog[1][2] = classId
    /\ FeedCall(<<"7">>, classId)

NextSingleKey ==
    \/ \E classId \in ClassIds : FeedSingleKey(classId)
    \/ /\ fedTotal = SingleKeyFeeds
       /\ analyseClass(fedLog[1][2])
    \/ /\ fedTotal = SingleKeyFeeds
       /\ \E maxSlabCount \in {1, MaxSlabs} :
             queryMrc([c \in {fedLog[1][2]} |-> 1], maxSlabCount)

SpecSingleKey == InitSingleKey /\ [][NextSingleKey]_vars

(***************************************************************************)
(* Properties of perfect locality, checked under SpecSingleKey.            *)
(***************************************************************************)
\* the statistics of the class: n accesses, one key, every reuse at distance
\* 1, footprint 1 for every window length
SingleKeyStats ==
    FpReturned =>
        /\ call.stats.n = SingleKeyFeeds
        /\ call.stats.m = 1
        /\ call.stats.reuseTimeHistogram[1] = SingleKeyFeeds - 1
        /\ \A w \in 1 .. SingleKeyFeeds : call.fpValues[w] = RatOne

\* a and b differ by no more than a thousandth
ApproxEqual(a, b) == 1000 * Abs(a[1] * b[2] - b[1] * a[2]) <= a[2] * b[2]

\* C16 as stated: with one key fed N times (N = 100 there, SingleKeyFeeds here)
\* and allocsPerSlab = 1: n = N, m = 1, R[1] = N - 1, fp(w) = 1 for w >= 1 and
\* miss_ratio(1) is about 1/N, the reuses being hits with one slab of one
\* object.
C16_OneSlabHoldsTheKey ==
    /\ SingleKeyStats
    /\ MrcReturned =>
          \A c \in DOMAIN call.ret :
              ApproxEqual(call.ret[c].mrcPoints[1], Rat(1, SingleKeyFeeds))

\* C16, amended: n = N, m = 1, R[1] = N - 1 and fp(w) = 1 for w >= 1, but
\* miss_ratio(1) = 1, because fp(1) = 1 is not below the cache size 1; the
\* N - 1 reuses are hits from two slabs on, where miss_ratio = 1/N.
C16_TwoSlabsHoldTheKey ==
    /\ SingleKeyStats
    /\ MrcReturned =>
          /\ DOMAIN call.ret = {fedLog[1][2]}
          /\ \A c \in DOMAIN call.ret :
                LET mr == call.ret[c].mrcPoints
                IN /\ mr[1] = RatOne
                   /\ \A s \in 2 .. call.maxSlabCount : mr[s] = Rat(1, SingleKeyFeeds)

\* the curve of the class queried up to two slabs after all the feeds
C16_Witness ==
    /\ MrcReturned
    /\ Len(call.window) = SingleKeyFeeds
    /\ \A i \in 1 .. Len(call.window) : call.window[i][1] = 7
    /\ call.maxSlabCount >= 2
    /\ \E c \in DOMAIN call.ret : call.ret[c].mrcPoints[2] = Rat(1, SingleKeyFeeds)

(***************************************************************************)
(* SpecUneven: two classes under uneven pressure.  Class A cycles over ten *)
(* keys for a number of rounds, class B feeds ten keys once each; either   *)
(* class may be the one fed first and either class id may be A.  The       *)
(* profiler holds all the accesses: its capacity is ten times the number   *)
(* of rounds, plus ten.  The solver is called when both have finished.     *)
(***************************************************************************)
UnevenKeys ==
    << <<"1">>, <<"2">>, <<"3">>, <<"4">>, <<"5">>,
       <<"6">>, <<"7">>, <<"8">>, <<"9">>, <<"1", "0">> >>

\* the accesses of class B, and of class A in a profiler of this capacity
UnevenAccessesB == Len(UnevenKeys)

UnevenAccessesA == circularBufferMaxLen - UnevenAccessesB

InitUneven ==
    \E rounds \in {2, 3} :
        FedProfiler(rounds * Len(UnevenKeys) + Len(UnevenKeys), << >>)

FedBy(c) == Cardinality({i \in 1 .. Len(fedLog) : fedLog[i][2] = c})

\* the class that has fed all the accesses of A, the other having fed those of B
UnevenDone(a, b) == FedBy(a) = UnevenAccessesA /\ FedBy(b) = UnevenAccessesB

\* The accesses of a class are fed in one block.  The class of the first
\* block may stop as B or go on as A; the class of the second block takes
\* the other role.
FeedUneven(c, other) ==
    /\ \/ /\ FedBy(other) = 0
          /\ FedBy(c) < UnevenAccessesA
       \/ /\ FedBy(other) = UnevenAccessesB
          /\ fedLog[Len(fedLog)][2] = c \/ FedBy(c) = 0
          /\ FedBy(c) < UnevenAccessesA
       \/ /\ FedBy(other) = UnevenAccessesA
          /\ fedLog[Len(fedLog)][2] = c \/ FedBy(c) = 0
          /\ FedBy(c) < UnevenAccessesB
    /\ FeedCall(UnevenKeys[(FedBy(c) % Len(UnevenKeys)) + 1], c)

SolveUneven(a, b) ==
    /\ UnevenDone(a, b)
    /\ solveSlabReallocation([c \in {a, b} |-> 5],
                             [c \in {a, b} |-> IF c = a THEN 1 ELSE 10])

NextUneven ==
    \/ \E c \in ClassIds, other \in ClassIds : c # other /\ FeedUneven(c, other)
    \/ \E a \in ClassIds, b \in ClassIds : a # b /\ SolveUneven(a, b)

SpecUneven == InitUneven /\ [][NextUneven]_vars

(***************************************************************************)
(* Properties of the uneven-pressure scenario, checked under SpecUneven.   *)
(***************************************************************************)
\* the class the call gave one slab: A
ClassA == CHOOSE c \in DOMAIN call.currentAllocation : call.currentAllocation[c] = 1

ClassB == CHOOSE c \in DOMAIN call.currentAllocation : c # ClassA

\* C17: with class A cycling over 10 keys and class B feeding 10 keys once
\* each, allocsPerSlab = {A:5, B:5} and currentAllocation = {A:1, B:10}, the
\* solver returns mrNew < mrOld and a non-empty plan all of whose pairs are
\* (B, A), whichever class id is the smaller.
C17_SlabsMoveFromBToA ==
    SolveReturned =>
        /\ call.ret # Raised
        /\ RatLess(call.ret.mrNew, call.ret.mrOld)
        /\ call.ret.reassignmentPlan # << >>
        /\ \A i \in 1 .. Len(call.ret.reassignmentPlan) :
              call.ret.reassignmentPlan[i] = <<ClassB, ClassA>>

\* the call with A the larger class id, fed after B, three rounds of A
C17_Witness ==
    /\ SolveReturned
    /\ ClassA > ClassB
    /\ fedLog[1][2] = ClassB
    /\ FedBy(ClassA) = 3 * FedBy(ClassB)
    /\ Len(call.window) = Len(fedLog)
    /\ Len(call.ret.reassignmentPlan) >= 2

(***************************************************************************)
(* SpecDistinct: classes whose keys all differ.  Every access of a class   *)
(* brings the next key the class has not fed yet; the two classes feed in  *)
(* any order until the ring is full; then one class is analysed, or the    *)
(* curves are queried, or the solver is called.                            *)
(***************************************************************************)
DistinctKeys == SubSeq(UnevenKeys, 1, Len(UnevenKeys) - 2)

InitDistinct == FedProfiler(Len(DistinctKeys), << >>)

FeedDistinct(c) ==
    /\ fedTotal < circularBufferMaxLen
    /\ FeedCall(DistinctKeys[FedBy(c) + 1], c)

NextDistinct ==
    \/ \E c \in ClassIds : FeedDistinct(c)
    \/ \E c \in ClassIds : analyseClass(c)
    \/ \E a \in AllocsMaps : queryMrc(a, MaxSlabs + 2)
    \/ \E a \in {EmptyMap} \cup MrcAllocsMaps, cur \in CurrentMaps : solveSlabReallocation(a, cur)

SpecDistinct == InitDistinct /\ [][NextDistinct]_vars

(***************************************************************************)
(* Properties of classes without reuse, checked under SpecDistinct.        *)
(***************************************************************************)
\* class c is the only class of the analysed window, has a positive number
\* of objects per slab and is listed in currentAllocation
OnlyClassOfCall(c) ==
    /\ call.window # << >>
    /\ \A i \in 1 .. Len(call.window) : call.window[i][2] = c
    /\ c \in DOMAIN call.allocsPerSlab
    /\ call.allocsPerSlab[c] > 0
    /\ c \in DOMAIN call.currentAllocation

\* C18: for a class whose n accesses are to n distinct keys the reuse
\* histogram is zero everywhere, fp(w) = w for every w in 1..n, and every
\* point of its miss-ratio curve is 1; when it is the only class of the
\* window and is listed in currentAllocation the solver returns
\* mrOld = mrNew = 1.
C18_NoReuseNoHits ==
    /\ (FpReturned /\ call.stats.n = call.stats.m) =>
          /\ \A t \in DOMAIN call.stats.reuseTimeHistogram :
                call.stats.reuseTimeHistogram[t] = 0
          /\ \A w \in 1 .. call.stats.n : call.fpValues[w] = Rat(w, 1)
    /\ MrcReturned =>
          \A c \in DOMAIN call.ret :
              AccessesOf(c) = DistinctKeysOf(c) =>
                  \A s \in 0 .. call.maxSlabCount : call.ret[c].mrcPoints[s] = RatOne
    /\ \A c \in ClassIds :
          (SolveReturned /\ OnlyClassOfCall(c)) =>
              /\ call.ret # Raised
              /\ call.ret.mrOld = RatOne
              /\ call.ret.mrNew = RatOne

\* the solver on a full ring of one class with eight keys and slabs to give
C18_Witness ==
    /\ SolveReturned
    /\ \E c \in ClassIds :
          /\ OnlyClassOfCall(c)
          /\ call.currentAllocation[c] = MaxSlabs
          /\ call.allocsPerSlab[c] = MaxAllocs
    /\ Len(call.window) = Len(DistinctKeys)
    /\ call.ret.mrNew = RatOne

(***************************************************************************)
(* SpecTwice: the solver called twice in succession.  The profiler has     *)
(* been fed a window as in SpecPlan; the second call has the arguments of  *)
(* the first and finds the scratch buffer the first call left.             *)
(***************************************************************************)
solveSlabReallocationAgain ==
    /\ call.op = "solveSlabReallocation"
    /\ "first" \notin DOMAIN call
    /\ bufferSnapshot' = QuerySnapshot
    /\ UNCHANGED <<circularBuffer, circularBufferMaxLen, currentBufferSize,
                   bufferHeadIndex, fedLog, fedTotal, threadVars>>
    /\ call' = [op |-> "solveSlabReallocation", allocsPerSlab |-> call.allocsPerSlab,
                currentAllocation |-> call.currentAllocation, window |-> QueryWindow,
                ret |-> solveOutcome(call.allocsPerSlab, call.currentAllocation),
                first |-> call.ret]

NextTwice ==
    \/ \E c \in PlanCurrentMaps : solveSlabReallocation([k \in PlanClassIds |-> 1], c)
    \/ solveSlabReallocationAgain

SpecTwice == InitPlan /\ [][NextTwice]_vars

(***************************************************************************)
(* Properties of repeated calls, checked under SpecTwice.                  *)
(***************************************************************************)
SolvedTwice == SolveReturned /\ "first" \in DOMAIN call

InitRefeed == \E k \in 1 .. MaxCapacity : FedProfiler(k, << >>)

FeedSame(key, classId) ==
    /\ fedTotal < 2 * circularBufferMaxLen
    /\ IF fedLog = << >> THEN TRUE ELSE fedLog[1] = <<KeyIntOf(key), classId>>
    /\ FeedCall(key, classId)

NextRefeed ==
    \/ \E key \in {<<"1">>, <<"k">>}, c \in ClassIds : FeedSame(key, c)
    \/ \E cacheSizes \in CacheSizeLists : queryFootprint(cacheSizes)
    \/ \E a \in AllocsMaps, maxSlabCount \in 0 .. MaxSlabs : queryMrc(a, maxSlabCount)
    \/ \E a \in AllocsMaps, cur \in CurrentMaps : solveSlabReallocation(a, cur)

SpecRefeed == InitRefeed /\ [][NextRefeed]_vars

(***************************************************************************)
(* Properties of refeeding, checked under SpecRefeed.                      *)
(***************************************************************************)
\* the window a query analyses on a fresh profiler of the same capacity K
\* that was fed the access K times
WindowAfterKFeeds ==
    LET k == circularBufferMaxLen
        ringAfterK == FedRing(k, Repeat(fedLog[1], k))
    IN AnalysedWindow(TakeSnapshot(ringAfterK, k), 0, k, k)

\* what the query of the call returns on that window
ResultAfterKFeeds ==
    CASE call.op = "queryFootprint" ->
            queryFootprintOnWindow(WindowAfterKFeeds, call.cacheSizes)
      [] call.op = "queryMrc" ->
            queryMrcOnWindow(WindowAfterKFeeds, call.allocsPerSlab, call.maxSlabCount)
      [] call.op = "solveSlabReallocation" ->
            solveOnMrcData(queryMrcOnWindow(WindowAfterKFeeds, call.allocsPerSlab,
                                            SumMap(call.currentAllocation)),
                           call.allocsPerSlab, call.currentAllocation)

\* C20: on a fresh profiler of capacity K, a query (footprint, MRC or solver)
\* made after the same (key, class) was fed 2 * K times returns what it
\* returns after K feeds.
C20_RefeedingFullWindowChangesNothing ==
    (QueryReturned /\ fedTotal \in {circularBufferMaxLen, 2 * circularBufferMaxLen}) =>
        call.ret = ResultAfterKFeeds

\* the solver called after 2 * K feeds, K >= 2, with slabs to hand out
C20_Witness ==
    /\ SolveReturned
    /\ circularBufferMaxLen >= 2
    /\ fedTotal = 2 * circularBufferMaxLen
    /\ Len(call.window) = circularBufferMaxLen
    /\ call.ret # Raised
    /\ call.ret # ZeroResult
    /\ RatLess(call.ret.mrNew, RatOne)

(***************************************************************************)
(* Properties of the window statistics, checked under SpecFp.              *)
(***************************************************************************)
\* the class-local positions before i of the accesses to the key of access i
EarlierAccesses(keys, i) == {j \in 1 .. i - 1 : keys[j] = keys[i]}

\* the accesses of the class whose previous access to the same key lies t
\* class-local positions back
ReusesAt(keys, t) ==
    {i \in 1 .. Len(keys) :
        /\ EarlierAccesses(keys, i) # {}
        /\ i - SetMax(EarlierAccesses(keys, i)) = t}

\* C21: for every class of the snapshot, n is the number of its records in
\* the window, m the number of its distinct keys, reuseHist[0] = 0, the sum
\* of reuseHist is at most n - m, and reuseHist[t] counts the accesses whose
\* previous access to the same key is t class-local positions back: one
\* count for every access that is not the first to its key.
C21_ReuseHistogramCountsReuses ==
    FpReturned =>
        LET keys == AnalysedKeys
            hist == call.stats.reuseTimeHistogram
        IN /\ call.stats.n = Len(keys)
           /\ call.stats.m = Cardinality({keys[i] : i \in 1 .. Len(keys)})
           /\ hist[0] = 0
           /\ SumSeq([i \in 1 .. Len(keys) - 1 |-> hist[i]])
                 <= call.stats.n - call.stats.m
           /\ \A t \in DOMAIN hist : hist[t] = Cardinality(ReusesAt(keys, t))

\* a class with a key accessed three times, interleaved with the other class
C21_Witness ==
    /\ FpReturned
    /\ Len(call.window) > call.stats.n
    /\ call.stats.m >= 2
    /\ \E i \in 1 .. Len(AnalysedKeys) : Cardinality(EarlierAccesses(AnalysedKeys, i)) = 2
    /\ \E t \in 2 .. call.stats.n - 1 : call.stats.reuseTimeHistogram[t] > 0

(***************************************************************************)
(* Properties of the entries of queryMrc, checked under SpecDistinct.      *)
(***************************************************************************)
\* the classes with at least one record in the analysed window
ClassesOfCall == {call.window[i][2] : i \in 1 .. Len(call.window)}

\* C22: queryMrc(allocsPerSlab, maxSlabs) returns one entry for each class
\* that has a record in the window and an allocsPerSlab value > 0 and no
\* other entry; the mrcPoints of an entry have exactly the keys 0..maxSlabs
\* and its access count is the number of records of the class in the window.
C22_MrcEntries ==
    MrcReturned =>
        /\ DOMAIN call.ret =
              {c \in ClassesOfCall :
                  c \in DOMAIN call.allocsPerSlab /\ call.allocsPerSlab[c] > 0}
        /\ \A c \in DOMAIN call.ret :
              /\ DOMAIN call.ret[c].mrcPoints = 0 .. call.maxSlabCount
              /\ call.ret[c].accessFrequency = AccessesOf(c)

\* one class returned, one skipped for its value 0 although it is in the
\* window
C22_Witness ==
    /\ MrcReturned
    /\ ClassesOfCall = ClassIds
    /\ DOMAIN call.allocsPerSlab = ClassIds
    /\ Cardinality(DOMAIN call.ret) = 1
    /\ \E c \in DOMAIN call.ret : AccessesOf(c) >= 2

(***************************************************************************)
(* Properties of the footprint query, checked under Spec.                  *)
(***************************************************************************)
FootprintReturned == call.op = "queryFootprint"

\* the footprint of class c at w: the average number of distinct keys over
\* the windows of w consecutive accesses of the class; 0 for a class
\* without a record
AverageFootprint(c, w) ==
    IF AccessesOf(c) = 0 THEN RatZero
    ELSE Rat(SumDistinct(KeysOfClass(c), 1, w), AccessesOf(c) - w + 1)

RECURSIVE SumOverClasses(_, _)
SumOverClasses(classes, cacheSize) ==
    IF classes = << >> THEN RatZero
    ELSE RatAdd(AverageFootprint(Head(classes), Min(cacheSize, AccessesOf(Head(classes)))),
                SumOverClasses(Tail(classes), cacheSize))

\* C23: the footprint query returns one value per requested object count, in
\* input order: for a non-empty window the sum over the classes of the
\* window of fp_class(min(count, n_class)), for an empty window zero.
C23_FootprintQuerySumsClasses ==
    FootprintReturned =>
        /\ Len(call.ret) = Len(call.cacheSizes)
        /\ \A i \in 1 .. Len(call.cacheSizes) :
              call.ret[i] =
                 IF call.window = << >> THEN RatZero
                 ELSE SumOverClasses(Ascending(ClassesOfCall), call.cacheSizes[i])

\* two classes in the window, one with fewer accesses than the count asked
\* for, and two different counts asked
C23_Witness ==
    /\ FootprintReturned
    /\ ClassesOfCall = ClassIds
    /\ Len(call.cacheSizes) = 2
    /\ call.cacheSizes[1] > call.cacheSizes[2]
    /\ \E c \in ClassIds : AccessesOf(c) < call.cacheSizes[1]
    /\ call.ret[1] # call.ret[2]

(***************************************************************************)
(* SpecView: the solver with classes missing from its view.  The profiler  *)
(* has been fed a window as in SpecPlan; each class has MaxAllocs objects  *)
(* per slab or the value 0, and currentAllocation lists any subset of the  *)
(* classes with MaxSlabs slabs each.                                       *)
(***************************************************************************)
NextView ==
    \E a \in [PlanClassIds -> {0, MaxAllocs}],
       cur \in UNION {[S -> {MaxSlabs}] : S \in SUBSET PlanClassIds} :
        solveSlabReallocation(a, cur)

SpecView == InitPlan /\ [][NextView]_vars

(***************************************************************************)
(* Properties of the solver's view, checked under SpecView.                *)
(***************************************************************************)
\* C24: in a non-zero solver result the key set of optimalAllocation is the
\* union of the classes of the MRC view and the keys of currentAllocation,
\* and every class of currentAllocation outside the MRC view (not in the
\* window, or without a non-zero allocsPerSlab) gets 0.
C24_AllocationCoversViewAndCurrent ==
    NonZeroReturned =>
        /\ call.ret # Raised
        /\ DOMAIN call.ret.optimalAllocation =
              DOMAIN ViewOfCall \cup DOMAIN call.currentAllocation
        /\ \A c \in DOMAIN call.currentAllocation \ DOMAIN ViewOfCall :
              call.ret.optimalAllocation[c] = 0

\* a view class absent from currentAllocation, a listed class absent from
\* the window and a listed class of the window with allocsPerSlab 0
C24_Witness ==
    /\ NonZeroReturned
    /\ DOMAIN ViewOfCall \ DOMAIN call.currentAllocation # {}
    /\ \E c \in DOMAIN call.currentAllocation : c \notin ClassesOfCall
    /\ \E c \in DOMAIN call.currentAllocation :
          c \in ClassesOfCall /\ call.allocsPerSlab[c] = 0

\* the slabs currentAllocation gives the classes of the view, a class
\* without an entry counting with 0 slabs
CurrentOverView(view) ==
    [c \in DOMAIN view |-> CurrentSlabsOf(call.currentAllocation, c)]

OptimalOverView(view) == [c \in DOMAIN view |-> call.ret.optimalAllocation[c]]

AccessesOfView(view) ==
    SumSeq([i \in 1 .. Len(Ascending(DOMAIN view)) |->
               view[Ascending(DOMAIN view)[i]].accessFrequency])

\* C25: mrOld is the sum of n_c * missRatio_c(currentAllocation[c]) over the
\* classes of the MRC view, a view class without a currentAllocation entry
\* counting with 0 slabs, divided by the sum of n_c over the view; mrNew is
\* the same expression over optimalAllocation; classes of currentAllocation
\* outside the view add nothing.
C25_MissRatesOverView ==
    NonZeroReturned =>
        LET view == ViewOfCall
        IN /\ call.ret.mrOld =
                 Rat(MissesOfAssignment(view, CurrentOverView(view)), AccessesOfView(view))
           /\ call.ret.mrNew =
                 Rat(MissesOfAssignment(view, OptimalOverView(view)), AccessesOfView(view))

(***************************************************************************)
(* SpecLife: construction, feeding and moving away.  The constructor is    *)
(* called with k in 0..MaxCapacity; a constructed profiler is fed any key  *)
(* text, reset, and may once be the source of a move construction, which   *)
(* leaves it with capacity 0.                                              *)
(***************************************************************************)
\* lines 58-60
ConstructorThrowsNever(k) == FALSE

ConstructorThrows(k) == k < 1

InvalidArgument == [raised |-> "std::invalid_argument"]

\* a key text of 21 digits: std::stoull throws std::out_of_range
LongKeyText == [i \in 1 .. 21 |-> "9"]

LifeKeyTexts == KeyTexts \cup {LongKeyText}

\* the constructor has been called with k and has not run yet
InitLife ==
    /\ circularBuffer = << >>
    /\ circularBufferMaxLen = 0
    /\ currentBufferSize = 0
    /\ bufferHeadIndex = 0
    /\ bufferSnapshot = << >>
    /\ \E k \in 0 .. MaxCapacity : call = [op |-> "FootprintMRC", k |-> k]
    /\ fedLog = << >>
    /\ fedTotal = 0
    /\ ThreadsIdle

Constructing == call.op = "FootprintMRC" /\ "ret" \notin DOMAIN call

\* lines 57-68
Construct ==
    /\ Constructing
    /\ IF ConstructorThrows(call.k)
       THEN /\ call' = [op |-> "FootprintMRC", k |-> call.k, ret |-> InvalidArgument]
            /\ UNCHANGED <<circularBuffer, circularBufferMaxLen, currentBufferSize,
                           bufferHeadIndex>>
       ELSE /\ circularBuffer' = NewBuffer(call.k)
            /\ circularBufferMaxLen' = call.k
            /\ currentBufferSize' = 0
            /\ bufferHeadIndex' = 0
            /\ call' = NoCall
    /\ UNCHANGED <<bufferSnapshot, fedLog, fedTotal, threadVars>>

\* lines 83-97, the profiler being the source of the move: its vectors are
\* left in a valid but unspecified state, empty or as they were
MovedFrom ==
    /\ call = NoCall
    /\ circularBufferMaxLen > 0
    /\ circularBuffer' \in {<< >>, circularBuffer}
    /\ bufferSnapshot' \in {<< >>, bufferSnapshot}
    /\ circularBufferMaxLen' = 0
    /\ currentBufferSize' = 0
    /\ bufferHeadIndex' = 0
    /\ UNCHANGED <<call, fedLog, fedTotal, threadVars>>

NextLife ==
    \/ Construct
    \/ \E key \in LifeKeyTexts, classId \in ClassIds : Feed(key, classId)
    \/ resetWindowAnalysis
    \/ MovedFrom

SpecLife == InitLife /\ [][NextLife]_vars

(***************************************************************************)
(* Properties of construction and feed, checked under SpecLife.            *)
(***************************************************************************)
\* the window a query would analyse on a ring in the given state
WindowOf(buf, head, size, maxLen) ==
    AnalysedWindow(TakeSnapshot(buf, size), head, size, maxLen)

\* C26: the constructor called with k < 1 fails with an invalid-argument
\* error and creates no profiler; called with k >= 1 it yields a ring of k
\* slots with size 0, head 0 and capacity k, whose window is empty.
C26_ConstructorChecksCapacity ==
    [][Constructing =>
          IF call.k < 1
          THEN /\ call'.op = "FootprintMRC"
               /\ call'.ret = InvalidArgument
               /\ circularBuffer' = << >>
               /\ circularBufferMaxLen' = 0
          ELSE /\ call' = NoCall
               /\ circularBufferMaxLen' = call.k
               /\ BufferLen(circularBuffer') = call.k
               /\ currentBufferSize' = 0
               /\ bufferHeadIndex' = 0
               /\ WindowOf(circularBuffer', bufferHeadIndex', currentBufferSize',
                           circularBufferMaxLen') = << >>]_vars

\* the constructor has failed for k = 0
C26_Witness ==
    /\ call.op = "FootprintMRC"
    /\ "ret" \in DOMAIN call
    /\ call.k = 0
    /\ BufferLen(circularBuffer) = 0

\* C27: feed never fails.  For any key text, numeric or not, and any class
\* id it returns without raising; on a usable profiler the window gains
\* exactly the record fed, the oldest record leaving a full window; on a
\* profiler of capacity 0 ring, head and size stay as they were.
C27_FeedNeverFails ==
    [][fedTotal' = fedTotal + 1 =>
          /\ call' = NoCall
          /\ IF circularBufferMaxLen = 0
             THEN UNCHANGED <<circularBuffer, bufferHeadIndex, currentBufferSize>>
             ELSE LET before == WindowOf(circularBuffer, bufferHeadIndex,
                                         currentBufferSize, circularBufferMaxLen)
                      after == WindowOf(circularBuffer', bufferHeadIndex',
                                        currentBufferSize', circularBufferMaxLen')
                      fed == fedLog'[Len(fedLog')]
                  IN /\ Len(fedLog') = Len(fedLog) + 1
                     /\ after = LastN(Append(before, fed),
                                      Min(Len(before) + 1, circularBufferMaxLen))]_vars

\* a profiler fed a non-numeric key and a key too long for 64 bits, then
\* moved from with its vector left as it was, then fed again
C27_Witness ==
    /\ circularBufferMaxLen = 0
    /\ BufferLen(circularBuffer) > 0
    /\ fedTotal > Len(fedLog)
    /\ \E i \in 1 .. Len(fedLog) : fedLog[i][1] = StdHash(<<"k">>)
    /\ \E i \in 1 .. Len(fedLog) : fedLog[i][1] = StdHash(LongKeyText)

(***************************************************************************)
(* Properties of the locking, checked under SpecConc.                      *)
(***************************************************************************)
\* the step is one in which thread t reads or writes the ring, the head,
\* the size or the capacity: the entry check of feed (line 151) and its
\* writes (lines 178-185), the emptiness pre-check of a query (lines 198,
\* 254), the copy of the snapshot (lines 625-635), the writes of reset
\* (lines 363-364)
AccessesRing(t) ==
    \/ /\ t \in Feeders
       /\ At(t, "idle")
       /\ local'[t].callNo # local[t].callNo
    \/ /\ t \in Feeders
       /\ pc[t] \in {"feedWriteKey", "feedWriteClass", "feedAdvance", "feedGrow"}
       /\ pc'[t] # pc[t]
    \/ /\ t = Querier
       /\ At(t, "idle")
       /\ local'[t].callNo # local[t].callNo
       /\ pc'[t] # "resetLock"
    \/ /\ t = Querier
       /\ pc[t] \in {"snapshotCopy", "resetWrite"}
       /\ pc'[t] # pc[t]

\* C28: every read and every write of the ring, head and size by feed,
\* reset and the queries is made by a thread that holds the mutex; no
\* operation inspects size or capacity outside its critical section.
C28_EveryAccessUnderMutex ==
    [][\A t \in Threads : AccessesRing(t) => bufferMutex = t]_vars

\* the window of the ring state the last critical section before the
\* snapshot had left
WindowAtSnapshot ==
    LET s == local[Querier].atSnapshot
    IN IF s.size = 0 THEN << >>
       ELSE SnapshotWindow(s.buffer, s.head, s.size, circularBufferMaxLen)

\* C29: a query holds the mutex only while it copies ring, head and size
\* into the snapshot; while it analyses the mutex is free for a feed, and
\* the window the query analyses is the one of the ring as it was at the
\* snapshot, whatever has been fed since.
C29_AnalysisOutsideTheLock ==
    [][/\ bufferMutex' = Querier =>
             pc'[Querier] \in {"snapshotCopy", "snapshotUnlock", "resetWrite", "resetUnlock"}
       /\ At(Querier, "analyse") => bufferMutex # Querier
       /\ (At(Querier, "analyse") /\ pc'[Querier] = "idle") =>
             local'[Querier].window = WindowAtSnapshot]_vars

\* a feed took the mutex after the snapshot and returned, the ring having
\* changed, while the query is still analysing
C29_Witness ==
    /\ At(Querier, "analyse")
    /\ Len(fedLog) > Len(local[Querier].logAtSnapshot)
    /\ committed # local[Querier].atSnapshot
    /\ committed = RingState(circularBuffer, bufferHeadIndex, currentBufferSize)
    /\ bufferMutex = NoThread
    /\ \A t \in Feeders : At(t, "idle")
    /\ local[Querier].atSnapshot.size > 0

(***************************************************************************)
(* SpecRace: SpecConc with resets by a further thread.  The critical       *)
(* section of that reset is one step, taken when the mutex is free: the    *)
(* only reads made without the mutex are of the size and the capacity, and *)
(* they see the size before or after line 363.                             *)
(***************************************************************************)
\* lines 361-365, called by a thread other than the feeders and the querier
ResetByOther ==
    /\ bufferMutex = NoThread
    /\ currentBufferSize > 0
    /\ currentBufferSize' = ResetSize(currentBufferSize)
    /\ bufferHeadIndex' = ResetHead(bufferHeadIndex)
    /\ committed' = RingState(circularBuffer, ResetHead(bufferHeadIndex),
                              ResetSize(currentBufferSize))
    /\ fedLog' = << >>
    /\ lockOrder' = << >>
    /\ UNCHANGED <<circularBuffer, circularBufferMaxLen, bufferSnapshot, call, fedTotal,
                   bufferMutex, pc, local, fedPairs>>

NextRace == NextConc \/ ResetByOther

SpecRace == InitConc /\ [][NextRace]_vars

(***************************************************************************)
(* Properties of queries that race with feed and reset, checked under      *)
(* SpecRace.                                                               *)
(***************************************************************************)
\* on an empty window the three queries, run alone, return what their early
\* returns give: zeros, no entry, the zero result
EmptyWindowResults ==
    /\ \A cacheSizes \in CacheSizeLists :
          queryFootprintOnWindow(<< >>, cacheSizes)
             = [i \in 1 .. Len(cacheSizes) |-> RatZero]
    /\ \A a \in FewAllocsMaps : queryMrcOnWindow(<< >>, a, MaxSlabs) = EmptyMap
    /\ \A a \in FewAllocsMaps, cur \in FewCurrentMaps :
          solveOnMrcData(EmptyMap, a, cur) = ZeroResult

\* C30: a query that runs concurrently with feed and reset calls analyses
\* the window of a state of (ring, head, size) that existed between its
\* start and its return, and so returns what it would return run alone on
\* that state: the state at the pre-check when the pre-check finds size 0,
\* else the state at the snapshot, which no critical section had open.
C30_QueryResultIsOfAnInstant ==
    [][/\ EmptyWindowResults
       /\ (local'[Querier].callNo # local[Querier].callNo
             /\ "window" \in DOMAIN local'[Querier]) =>
             /\ currentBufferSize = 0
             /\ local'[Querier].window =
                   WindowOf(circularBuffer, bufferHeadIndex, currentBufferSize,
                            circularBufferMaxLen)
       /\ (At(Querier, "snapshotCopy") /\ pc'[Querier] # "snapshotCopy") =>
             /\ local'[Querier].atSnapshot =
                   RingState(circularBuffer, bufferHeadIndex, currentBufferSize)
             /\ bufferSnapshot' = TakeSnapshot(circularBuffer, currentBufferSize)
       /\ (At(Querier, "analyse") /\ pc'[Querier] = "idle") =>
             local'[Querier].window = WindowAtSnapshot]_vars

\* a query whose pre-check found records and whose snapshot found none,
\* a reset having run in between, on a ring that had been fed
C30_Witness ==
    /\ At(Querier, "idle")
    /\ "snapshotSize" \in DOMAIN local[Querier]
    /\ local[Querier].snapshotSize = 0
    /\ local[Querier].window = << >>
    /\ local[Querier].atSnapshot.buffer # NewBuffer(circularBufferMaxLen)


(***************************************************************************)
(* SpecQueries: two threads call queries on the same profiler while a      *)
(* third one feeds it.  bufferSnapshot is one member of the object (line   *)
(* 589): every query clears it and copies the ring into it under the mutex *)
(* (lines 623-636) and reads it after the mutex is released (lines 638     *)
(* onwards).                                                               *)
(***************************************************************************)
Querier2 == "querier2"

Queriers == {Querier, Querier2}

\* the emptiness pre-check of a query called by thread t (lines 198, 254)
QueryEnterBy(t) ==
    /\ At(t, "idle")
    /\ local[t].callNo < MaxQueries
    /\ IF PreCheckEmpty(currentBufferSize)
       THEN /\ local' = [local EXCEPT ![t] = [callNo |-> local[t].callNo + 1,
                                               window |-> << >>]]
            /\ UNCHANGED pc
       ELSE /\ local' = [local EXCEPT ![t] = [callNo |-> local[t].callNo + 1]]
            /\ Goto(t, "snapshotLock")
    /\ UNCHANGED <<circularBuffer, circularBufferMaxLen, currentBufferSize, bufferHeadIndex,
                   bufferSnapshot, call, fedLog, fedTotal, bufferMutex, lockOrder,
                   committed, fedPairs>>

\* line 624
SnapshotLockBy(t) ==
    /\ At(t, "snapshotLock")
    /\ SnapshotMayLock(bufferMutex)
    /\ bufferMutex' = t
    /\ Goto(t, "snapshotClear")
    /\ UNCHANGED <<circularBuffer, circularBufferMaxLen, currentBufferSize, bufferHeadIndex,
                   bufferSnapshot, call, fedLog, fedTotal, local, lockOrder, committed,
                   fedPairs>>

\* lines 625-630: size, head and capacity are read and the shared scratch
\* buffer is cleared
SnapshotClearBy(t) ==
    /\ At(t, "snapshotClear")
    /\ local' = [local EXCEPT ![t] =
                    [callNo |-> local[t].callNo,
                     snapshotSize |-> currentBufferSize,
                     snapshotHeadIndex |-> bufferHeadIndex,
                     snapshotMaxLen |-> circularBufferMaxLen,
                     atSnapshot |-> RingState(circularBuffer, bufferHeadIndex,
                                              currentBufferSize)]]
    /\ bufferSnapshot' = << >>
    /\ Goto(t, "snapshotAssign")
    /\ UNCHANGED <<circularBuffer, circularBufferMaxLen, currentBufferSize, bufferHeadIndex,
                   call, fedLog, fedTotal, bufferMutex, lockOrder, committed, fedPairs>>

\* lines 632-635: the ring is copied into the shared scratch buffer
SnapshotAssignBy(t) ==
    /\ At(t, "snapshotAssign")
    /\ bufferSnapshot' = TakeSnapshot(circularBuffer, local[t].snapshotSize)
    /\ Goto(t, "snapshotUnlock")
    /\ UNCHANGED <<circularBuffer, circularBufferMaxLen, currentBufferSize, bufferHeadIndex,
                   call, fedLog, fedTotal, bufferMutex, local, lockOrder, committed,
                   fedPairs>>

\* line 636
SnapshotUnlockBy(t) ==
    /\ At(t, "snapshotUnlock")
    /\ bufferMutex' = NoThread
    /\ Goto(t, "analyse")
    /\ UNCHANGED <<circularBuffer, circularBufferMaxLen, currentBufferSize, bufferHeadIndex,
                   bufferSnapshot, call, fedLog, fedTotal, local, lockOrder, committed,
                   fedPairs>>

\* lines 638-678: thread t reads the shared scratch buffer, as it is by
\* then, with the size, head and capacity it read itself
AnalyseBy(t) ==
    /\ At(t, "analyse")
    /\ local' = [local EXCEPT ![t] =
                    [f \in DOMAIN local[t] \cup {"window"} |->
                        IF f = "window"
                        THEN AnalysedWindow(bufferSnapshot, local[t].snapshotHeadIndex,
                                            local[t].snapshotSize,
                                            local[t].snapshotMaxLen)
                        ELSE local[t][f]]]
    /\ Goto(t, "idle")
    /\ UNCHANGED <<circularBuffer, circularBufferMaxLen, currentBufferSize, bufferHeadIndex,
                   bufferSnapshot, call, fedLog, fedTotal, bufferMutex, lockOrder,
                   committed, fedPairs>>

InitQueries ==
    /\ circularBuffer = NewBuffer(MaxFeeds - 1)
    /\ circularBufferMaxLen = MaxFeeds - 1
    /\ currentBufferSize = 0
    /\ bufferHeadIndex = 0
    /\ bufferSnapshot = << >>
    /\ call = NoCall
    /\ fedLog = << >>
    /\ fedTotal = 0
    /\ bufferMutex = NoThread
    /\ pc = [t \in Threads \cup Queriers |-> "idle"]
    /\ local = [t \in Threads \cup Queriers |-> NoLocals]
    /\ lockOrder = << >>
    /\ committed = RingState(circularBuffer, bufferHeadIndex, currentBufferSize)
    /\ fedPairs = {}

\* the thread that feeds
TheFeeder == "feeder1"

NextQueries ==
    \/ \E access \in ConcFeeds : FeedEnter(TheFeeder, access[1], access[2])
    \/ FeedLock(TheFeeder)
    \/ FeedWriteKey(TheFeeder)
    \/ FeedWriteClass(TheFeeder)
    \/ FeedAdvance(TheFeeder)
    \/ FeedGrow(TheFeeder)
    \/ FeedUnlock(TheFeeder)
    \/ \E t \in Queriers : QueryEnterBy(t)
    \/ \E t \in Queriers : SnapshotLockBy(t)
    \/ \E t \in Queriers : SnapshotClearBy(t)
    \/ \E t \in Queriers : SnapshotAssignBy(t)
    \/ \E t \in Queriers : SnapshotUnlockBy(t)
    \/ \E t \in Queriers : AnalyseBy(t)

SpecQueries == InitQueries /\ [][NextQueries]_vars

(***************************************************************************)
(* Properties of concurrent queries, checked under SpecQueries.            *)
(***************************************************************************)
\* the window of the ring as thread t found it under the mutex
OwnSnapshotWindow(t) ==
    LET s == local[t].atSnapshot
    IN IF s.size = 0 THEN << >>
       ELSE SnapshotWindow(s.buffer, s.head, s.size, circularBufferMaxLen)

\* C31: when two queries run concurrently on the same profiler, the buffer
\* a query reads during its analysis is not cleared or overwritten by the
\* other query's snapshot step, and each query analyses the snapshot it
\* took itself.
C31_EachQueryAnalysesItsOwnSnapshot ==
    [][\A t \in Queriers :
          /\ (At(t, "analyse") /\ pc'[t] = "analyse") => bufferSnapshot' = bufferSnapshot
          /\ (At(t, "analyse") /\ pc'[t] = "idle") =>
                local'[t].window = OwnSnapshotWindow(t)]_vars


(***************************************************************************)
(* SpecHit: the hit test of queryMrc.  The profiler has been fed a window  *)
(* of up to MaxWindow accesses of two classes and two keys; queryMrc is    *)
(* called once as in SpecMrc.                                              *)
(***************************************************************************)
HitWindows ==
    UNION {[1 .. len -> {<<KeyIntOf(key), c>> : key \in {<<"1">>, <<"2">>}, c \in ClassIds}] :
              len \in 0 .. MaxWindow}

InitHit == \E window \in HitWindows : FedProfiler(MaxWindow, window)

NextHit == \E a \in MrcAllocsMaps : queryMrc(a, MaxSlabs + 1)

SpecHit == InitHit /\ [][NextHit]_vars

(***************************************************************************)
(* Properties of the hit test of queryMrc, checked under SpecHit.          *)
(***************************************************************************)
\* the reuse times of class c whose footprint is strictly below capacity
FittingReuseTimes(c, capacity) ==
    {t \in 1 .. AccessesOf(c) - 1 : RatLess(AverageFootprint(c, t), <<capacity, 1>>)}

\* the accesses of class c that reuse a key at one of these reuse times
HitsOf(c, capacity) ==
    {i \in 1 .. AccessesOf(c) :
        \E t \in FittingReuseTimes(c, capacity) : i \in ReusesAt(KeysOfClass(c), t)}

\* C32: for every class in the queryMrc result and every s in 1..maxSlabs,
\* miss_ratio(s) = 1 - hits / n_c within [0, 1], where hits counts the reuses
\* at exactly those reuse times t >= 1 whose footprint fp(t) is strictly
\* below s * allocsPerSlab; a reuse whose footprint equals the capacity is a
\* miss.
C32_HitIffFootprintStrictlyFits ==
    MrcReturned =>
        \A c \in DOMAIN call.ret :
            \A s \in 1 .. call.maxSlabCount :
                LET hits == Cardinality(HitsOf(c, s * call.allocsPerSlab[c]))
                    mr == call.ret[c].mrcPoints[s]
                IN /\ mr = Rat(AccessesOf(c) - hits, AccessesOf(c))
                   /\ RatLeq(RatZero, mr)
                   /\ RatLeq(mr, RatOne)

\* a class with a reuse whose footprint equals the capacity of s slabs, a
\* miss, and a reuse that is a hit at the same s
C32_Witness ==
    /\ MrcReturned
    /\ \E c \in DOMAIN call.ret :
          \E s \in 1 .. call.maxSlabCount :
             /\ \E t \in 1 .. AccessesOf(c) - 1 :
                   /\ ReusesAt(KeysOfClass(c), t) # {}
                   /\ AverageFootprint(c, t) = <<s * call.allocsPerSlab[c], 1>>
             /\ HitsOf(c, s * call.allocsPerSlab[c]) # {}


(***************************************************************************)
(* Properties of the solver's choice among allocations of equal cost,      *)
(* checked under SpecView.                                                 *)
(***************************************************************************)
\* the assignments of the budget to the classes of the view that have the
\* fewest misses
CheapestAssignments(view, budget) ==
    LET all == Assignments(DOMAIN view, budget)
        least == SetMin({MissesOfAssignment(view, a) : a \in all})
    IN {a \in all : MissesOfAssignment(view, a) = least}

\* the slab counts k with which cell (i, j) of the table reaches its cost
CellChoices(table, view, classIds, i, j, budget) ==
    LET costRow == CostRow(view[classIds[i]], budget, budget)
    IN {k \in 0 .. j :
           /\ table[i].F[j - k] # Infinity
           /\ table[i].F[j - k] + costRow[k] = table[i + 1].F[j]}

\* C33: the solver takes the classes of the MRC view in ascending ClassId
\* order and keeps in every cell of the table the smallest slab count that
\* attains the minimum; so among the cheapest allocations of the B slabs the
\* returned one gives the highest ClassId the fewest slabs possible, then
\* the next-highest the fewest possible given that, and so on, the lowest
\* ClassId taking the remainder.
C33_TiesGoToLowerClassIds ==
    NonZeroReturned =>
        LET view == ViewOfCall
            budget == SumMap(call.currentAllocation)
            classIds == Ascending(DOMAIN view)
            table == DPTable(view, classIds, Len(classIds), budget)
            chosen == OptimalOverView(view)
        IN /\ \A i \in 1 .. Len(classIds) - 1 : classIds[i] < classIds[i + 1]
           /\ \A i \in 1 .. Len(classIds) :
                 \A j \in 0 .. budget :
                    table[i + 1].F[j] # Infinity =>
                       table[i + 1].B[j] =
                          SetMin(CellChoices(table, view, classIds, i, j, budget))
           /\ chosen \in CheapestAssignments(view, budget)
           /\ \A a \in CheapestAssignments(view, budget) \ {chosen} :
                 LET top == SetMax({c \in DOMAIN view : a[c] # chosen[c]})
                 IN chosen[top] < a[top]
           /\ chosen[classIds[1]] =
                 budget - SumMap([c \in DOMAIN view \ {classIds[1]} |-> chosen[c]])

\* three classes in the view, allocations of different cost, several of
\* them cheapest, and the highest class getting a slab it needs
C33_Witness ==
    /\ NonZeroReturned
    /\ Cardinality(DOMAIN ViewOfCall) = 3
    /\ LET view == ViewOfCall
           budget == SumMap(call.currentAllocation)
       IN /\ Cardinality(CheapestAssignments(view, budget)) >= 2
          /\ CheapestAssignments(view, budget) # Assignments(DOMAIN view, budget)
          /\ OptimalOverView(view)[SetMax(DOMAIN view)] > 0
          /\ OptimalOverView(view)[SetMin(DOMAIN view)]
                > OptimalOverView(view)[SetMax(DOMAIN view)]


(***************************************************************************)
(* SpecFrame: queries, feeds and resets in any order.  The caller takes    *)
(* the result of a query and then calls feed, reset or a query again, on a *)
(* ring that wraps.                                                        *)
(***************************************************************************)
\* the caller has taken the result of its query
Return ==
    /\ call # NoCall
    /\ call' = NoCall
    /\ UNCHANGED <<circularBuffer, circularBufferMaxLen, currentBufferSize,
                   bufferHeadIndex, bufferSnapshot, fedLog, fedTotal, threadVars>>

NextFrame ==
    \/ \E access \in ConcFeeds : Feed(access[1], access[2])
    \/ resetWindowAnalysis
    \/ queryFootprint(<<1, MaxCacheSize>>)
    \/ \E a \in MrcAllocsMaps : queryMrc(a, MaxSlabs)
    \/ \E a \in MrcAllocsMaps, c \in FewCurrentMaps : solveSlabReallocation(a, c)
    \/ Return

SpecFrame == InitConc /\ [][NextFrame]_vars

(***************************************************************************)
(* Properties of the frame of the queries, checked under SpecFrame.        *)
(***************************************************************************)
\* what the solver returns or raises on a profiler whose window is window
SolveOnWindow(window, allocsPerSlabMap, currentSlabAllocation) ==
    LET classMrcData ==
            queryMrcOnWindow(window, allocsPerSlabMap, SumMap(currentSlabAllocation))
        ret == solveOnMrcData(classMrcData, allocsPerSlabMap, currentSlabAllocation)
    IN IF window # << >> /\ queryMrcThrows(window, allocsPerSlabMap) THEN Raised
       ELSE IF solveThrows(classMrcData, currentSlabAllocation, ret) THEN Raised
       ELSE ret

\* what the query recorded in c returns on a profiler whose window is
\* window and on which no query has run
ResultOnWindow(c, window) ==
    CASE c.op = "queryFootprint" -> queryFootprintOnWindow(window, c.cacheSizes)
      [] c.op = "queryMrc" -> queryMrcOnWindow(window, c.allocsPerSlab, c.maxSlabCount)
      [] c.op = "solveSlabReallocation" ->
            SolveOnWindow(window, c.allocsPerSlab, c.currentAllocation)

\* C34: the footprint query, queryMrc and solveSlabReallocation leave the
\* ring, the head and the size as they are: a query, whatever queries ran
\* before it, analyses the records fed since the last reset and returns what
\* it returns on that window without earlier queries; a step that changes
\* ring, head or size is a feed or a reset.
C34_QueriesLeaveTheWindow ==
    [][/\ (call' # call /\ call'.op \in QueryOps) =>
             /\ UNCHANGED <<circularBuffer, circularBufferMaxLen, currentBufferSize,
                            bufferHeadIndex>>
             /\ call'.window = FedWindow
             /\ call'.ret = ResultOnWindow(call', FedWindow)
       /\ call' = NoCall =>
             \/ UNCHANGED <<circularBuffer, circularBufferMaxLen, currentBufferSize,
                            bufferHeadIndex>>
             \/ fedTotal' = fedTotal + 1
             \/ /\ currentBufferSize' = 0
                /\ bufferHeadIndex' = 0
                /\ fedLog' = << >>
                /\ UNCHANGED <<circularBuffer, circularBufferMaxLen, call>>]_vars

\* a query has returned on a window emptied by a reset while the scratch
\* buffer still holds the snapshot of an earlier query, taken after the
\* ring had wrapped
C34_Witness ==
    /\ QueryReturned
    /\ call.window = << >>
    /\ bufferSnapshot # << >>
    /\ \A i \in DOMAIN bufferSnapshot : bufferSnapshot[i] # EmptyRecord
    /\ fedTotal = MaxFeeds


(***************************************************************************)
(* Properties of the plan applied pair by pair, checked under SpecPlan.    *)
(***************************************************************************)
\* the slabs of class c after the first p pairs of the returned plan have
\* been applied to currentAllocation, each pair taking one slab from its
\* victim and giving one to its receiver
SlabsAfter(c, p) ==
    LET plan == call.ret.reassignmentPlan
    IN CurrentSlabsOf(call.currentAllocation, c)
         - CountIn(SubSeq(PlanVictims(plan), 1, p), c)
         + CountIn(SubSeq(PlanReceivers(plan), 1, p), c)

\* C35: when the pairs of a returned plan are applied in plan order to
\* currentAllocation, after every prefix each class has at least 0 slabs
\* and a count between its currentAllocation and its optimalAllocation
\* value, the total is B, and after the last pair the allocation is
\* optimalAllocation.
C35_EveryPrefixOfThePlanIsSafe ==
    SolveReturned =>
        LET opt == call.ret.optimalAllocation
            cur == call.currentAllocation
            plan == call.ret.reassignmentPlan
            classes == DOMAIN opt \cup DOMAIN cur
        IN /\ call.ret # Raised
           /\ \A p \in 0 .. Len(plan) :
                 /\ \A c \in DOMAIN opt :
                       /\ SlabsAfter(c, p) >= 0
                       /\ Min(CurrentSlabsOf(cur, c), opt[c]) <= SlabsAfter(c, p)
                       /\ SlabsAfter(c, p) <= SetMax({CurrentSlabsOf(cur, c), opt[c]})
                 /\ SumMap([c \in classes |-> SlabsAfter(c, p)]) = SumMap(cur)
           /\ \A c \in DOMAIN opt : SlabsAfter(c, Len(plan)) = opt[c]

\* a plan of three pairs or more with two victims or two receivers, so that
\* a class stands strictly between its two values after some prefix
C35_Witness ==
    /\ NonZeroReturned
    /\ Len(call.ret.reassignmentPlan) >= 3
    /\ Cardinality({call.ret.reassignmentPlan[i][1] :
                       i \in 1 .. Len(call.ret.reassignmentPlan)}) = 2
    /\ \E c \in DOMAIN call.ret.optimalAllocation :
          \E p \in 1 .. Len(call.ret.reassignmentPlan) - 1 :
             /\ SlabsAfter(c, p) # CurrentSlabsOf(call.currentAllocation, c)
             /\ SlabsAfter(c, p) # call.ret.optimalAllocation[c]


(***************************************************************************)
(* Properties of the receiver side of the plan, checked under SpecPlan.    *)
(***************************************************************************)
\* the slabs class c is to gain
SlabsToGain(c) ==
    LET gain == call.ret.optimalAllocation[c] - CurrentSlabsOf(call.currentAllocation, c)
    IN IF gain > 0 THEN gain ELSE 0

\* C37: in the reassignmentPlan the receivers appear in non-decreasing
\* ClassId order, each receiver class in optimalAllocation[c] -
\* currentAllocation[c] consecutive positions, whatever the access counts
\* and the order of the victims.
C37_ReceiversInClassIdOrder ==
    SolveReturned =>
        LET receivers == PlanReceivers(call.ret.reassignmentPlan)
        IN /\ \A i \in 1 .. Len(receivers) - 1 : receivers[i] <= receivers[i + 1]
           /\ \A c \in DOMAIN call.ret.optimalAllocation :
                 CountIn(receivers, c) = SlabsToGain(c)
           /\ \A i \in 1 .. Len(receivers) :
                 receivers[i] \in DOMAIN call.ret.optimalAllocation

\* two receiver classes in the plan, the one with the lower ClassId first
\* although it has fewer accesses than the other
C37_Witness ==
    /\ NonZeroReturned
    /\ LET receivers == PlanReceivers(call.ret.reassignmentPlan)
       IN \E i \in 1 .. Len(receivers) - 1 :
             /\ receivers[i] < receivers[i + 1]
             /\ call.ret.accessFrequencies[receivers[i]]
                   < call.ret.accessFrequencies[receivers[i + 1]]


(***************************************************************************)
(* SpecRebalance: the host's rebalancer applying a plan,                   *)
(* PoolRebalancer::tryRebalancing (PoolRebalancer.cpp, lines 149-203).     *)
(* The pool statistics, the pool's allSlabsAllocated and the strategy's    *)
(* pickVictimAndReceiver are inputs of the call; released is the log of    *)
(* the calls of releaseSlab, as <<victim, receiver>>, in call order.       *)
(***************************************************************************)
\* Slab::kInvalidClassId, a ClassId no allocation class has
kInvalidClassId == -1

\* what a ClassId field of a RebalanceContext may hold
ContextClassIds == ClassIds \cup {kInvalidClassId}

\* RebalanceContext::victimReceiverPairs: up to MaxSlabs pairs
PairLists ==
    UNION {[1 .. len -> ContextClassIds \X ContextClassIds] : len \in 0 .. MaxSlabs}

\* the rebalance contexts a strategy may return
RebalanceContexts ==
    [victimClassId : {kInvalidClassId, 1}, receiverClassId : {kInvalidClassId, 2},
     victimReceiverPairs : PairLists]

\* lines 152-157: the release of a slab of the class with the most free
\* allocations, victim being the result of pickVictimByFreeAlloc
ReleasedByFreeAlloc(freeAllocThreshold, victim) ==
    IF freeAllocThreshold > 0 /\ victim # kInvalidClassId
    THEN << <<victim, kInvalidClassId>> >>
    ELSE << >>

\* faulty variant of BothValid: one valid side is enough
EitherValid(pair) == pair[1] # kInvalidClassId \/ pair[2] # kInvalidClassId

\* line 177
BothValid(pair) == pair[1] # kInvalidClassId /\ pair[2] # kInvalidClassId

\* lines 176-180: the loop over the pairs, from pair i on
RECURSIVE ReleasedForPairs(_, _, _)
ReleasedForPairs(pairs, i, released) ==
    IF i > Len(pairs) THEN released
    ELSE ReleasedForPairs(pairs, i + 1,
            IF BothValid(pairs[i]) THEN Append(released, pairs[i]) ELSE released)

\* lines 174-190: the releases made for a context, and whether the call
\* goes on to return true
ReleasedForContext(context) ==
    IF context.victimReceiverPairs # << >>
    THEN [released |-> ReleasedForPairs(context.victimReceiverPairs, 1, << >>),
          goesOn |-> TRUE]
    ELSE IF context.victimClassId = kInvalidClassId
    THEN [released |-> << >>, goesOn |-> FALSE]
    ELSE [released |-> << <<context.victimClassId, context.receiverClassId>> >>,
          goesOn |-> TRUE]

\* the rebalancer after its construction with a freeAllocThreshold; the
\* profiler is not touched by tryRebalancing
InitRebalance ==
    /\ circularBuffer = NewBuffer(1)
    /\ circularBufferMaxLen = 1
    /\ currentBufferSize = 0
    /\ bufferHeadIndex = 0
    /\ bufferSnapshot = << >>
    /\ \E threshold \in {0, 1} :
          call = [op |-> "PoolRebalancer", freeAllocThreshold |-> threshold]
    /\ fedLog = << >>
    /\ fedTotal = 0
    /\ ThreadsIdle

\* lines 149-203, the whole call
tryRebalancing(freeAllocVictim, allSlabsAllocated, context) ==
    /\ call.op = "PoolRebalancer"
    /\ LET early == ReleasedByFreeAlloc(call.freeAllocThreshold, freeAllocVictim)
           forContext == ReleasedForContext(context)
       IN call' =
            IF ~allSlabsAllocated
            THEN [op |-> "tryRebalancing", freeAllocThreshold |-> call.freeAllocThreshold,
                  freeAllocVictim |-> freeAllocVictim,
                  allSlabsAllocated |-> allSlabsAllocated,
                  asked |-> FALSE, released |-> early, ret |-> FALSE]
            ELSE [op |-> "tryRebalancing", freeAllocThreshold |-> call.freeAllocThreshold,
                  freeAllocVictim |-> freeAllocVictim,
                  allSlabsAllocated |-> allSlabsAllocated,
                  asked |-> TRUE, context |-> context,
                  released |-> early \o forContext.released,
                  ret |-> forContext.goesOn]
    /\ UNCHANGED <<circularBuffer, circularBufferMaxLen, currentBufferSize,
                   bufferHeadIndex, bufferSnapshot, fedLog, fedTotal, threadVars>>

NextRebalance ==
    \E freeAllocVictim \in ContextClassIds, allSlabsAllocated \in BOOLEAN,
       context \in RebalanceContexts :
        tryRebalancing(freeAllocVictim, allSlabsAllocated, context)

SpecRebalance == InitRebalance /\ [][NextRebalance]_vars

(***************************************************************************)
(* Properties of the rebalancer, checked under SpecRebalance.              *)
(***************************************************************************)
Rebalanced == call.op = "tryRebalancing"

\* the releases of the call that are not the one made for free allocations
ReleasedForPlan ==
    LET early == IF call.freeAllocThreshold > 0 /\ call.freeAllocVictim # kInvalidClassId
                 THEN 1 ELSE 0
    IN SubSeq(call.released, early + 1, Len(call.released))

\* the pairs of the list with two valid sides, in list order
ValidPairsOf(pairs) ==
    LET pos == Ascending({i \in 1 .. Len(pairs) :
                             pairs[i][1] \in ClassIds /\ pairs[i][2] \in ClassIds})
    IN [i \in 1 .. Len(pos) |-> pairs[pos[i]]]

=============================================================================
